---- MODULE Spec2Model ----
(***************************************************************************)
(* Verification model of the peer-to-peer networking core of the node.    *)
(*                                                                         *)
(* The repository holds several generations of the networking code.  The  *)
(* model follows each operation in the file that defines it:               *)
(*   - Buckets                      src/concordium-node/src/p2p.rs         *)
(*   - Connection / deduplication   src/concordium-node/src/connection/    *)
(*   - accept / connect / routing   src/concordium-node/src/p2p/           *)
(* Each subsystem has its own specification (SpecBuckets, ...) over the    *)
(* shared variables; the variables of the other subsystems stay put.       *)
(***************************************************************************)
EXTENDS Integers, Sequences, FiniteSets, TLC

VARIABLES
    \* ---- Buckets (p2p.rs) ----
    buckets,      \* Buckets.buckets : bucket index -> Vec<(P2PPeer, Vec<u16>)>
    bk_pre,       \* the buckets before the last Buckets operation
    bk_op,        \* the last Buckets operation and its argument
    filled,       \* number of distinct peers that have handshaked so far
    updated,      \* number of those peers that have then sent a JoinNetwork
    ops,          \* number of further Buckets operations performed
    \* ---- connections and routing (p2p/connectivity.rs, p2p/p2p_node.rs) ----
    connections,     \* established connections: token -> Connection
    conn_candidates, \* connections still in their handshake: token -> Connection
    next_token,      \* connection_handler.next_token
    relay_pct,       \* config.relay_broadcast_percentage, in percent
    sent,            \* tokens of the connections the last routing call sent on
    last_call,       \* the last routing call: its packet and what it skipped
    send_queue,      \* p2p.rs P2PNode.send_queue after process_messages
    resend_queue,    \* p2p_node.rs resend queue (resend_queue_in/out)
    max_resend_attempts, \* p2p_node.rs config.max_resend_attempts
    \* ---- receiving (connection/mod.rs) ----
    deduplication_queues, \* the node's DeduplicationQueues
    handled,         \* the messages given to handle_incoming_message, in order
    forwarded,       \* the messages forwarded to other peers or to RPC, in order
    last_result,     \* what the last process_message did with its message
    last_forward,    \* the last forward_network_message: arrival and targets
    recv_cfg,        \* self_peer.peer_type, is_rpc_online, config.no_trust_bans
    flooded,         \* number of blocks of the burst received so far
    recvs,           \* number of other messages received so far
    conn_changes,    \* the connection changes registered and not yet processed
    \* ---- admission of connections (p2p/connectivity.rs) ----
    soft_bans,       \* connection_handler.soft_bans: BanId -> expiry
    hard_bans,       \* the banned nodes (ban_node)
    admit_cfg,       \* config.hard_connection_limit, config.max_allowed_nodes
    last_admit,      \* the last accept or connect and how it ended
    \* ---- sending (connection/mod.rs) ----
    network_messages_hi, \* connection_handler.network_messages_hi, a channel
    network_messages_lo, \* connection_handler.network_messages_lo, a channel
    written,         \* the requests written to their sockets, in order
    queued,          \* every async_send so far, in order
    \* ---- housekeeping (p2p/connectivity.rs) ----
    clock,           \* get_current_stamp() / Instant::now()
    stats,           \* token -> the ConnectionStats of the connection
    house_cfg,       \* the node's peer type, config.max_latency
    housekept,       \* the last connection_housekeeping: when, what it dropped
    \* ---- framing of inbound plaintext (p2p.rs Connection) ----
    stream,          \* the plaintext bytes the remote peer sends, in order
    frames_in,       \* the frames the remote peer encoded into the stream
    pos,             \* number of bytes of the stream read so far
    framer,          \* expected_size, currently_read, pkt_buffer; the frames
                     \* handed to process_complete_packet
    closing,         \* Connection.closing
    \* ---- handshakes (p2p.rs Connection::process_complete_packet) ----
    mode,            \* the node's P2PNodeMode
    closing_tokens,  \* tokens of the connections whose closing flag is set
    last_handshake,  \* the last Handshake request: connection, sender, and
                     \* the ids of the peers connected when it arrived
    shakes,          \* number of Handshake requests received so far
    \* ---- consensus bridge (bin/cli.rs start_global_state_thread) ----
    callback_queue,  \* CALLBACK_QUEUE: the four queues, by name
    bridge_pc,       \* where the global state thread is
    loop_interval_in,  \* loop_interval_in
    loop_interval_out, \* loop_interval_out
    lo_taken,        \* iterations done of the current loop over a lo queue
    relays,          \* messages sent so far to the queues other than in_hi
    stop_sent,       \* whether a Stop has been sent
    \* ---- event loop (p2p/p2p_node.rs spawn, close, join) ----
    quit_tx,         \* P2PNode.quit_tx is Some
    quit_rx,         \* the values sent on the termination channel, not yet read
    loop_pc,         \* where the spawned thread is
    join_handle,     \* P2PNodeThread.join_handle is Some
    joiner,          \* the join() of another thread: idle, joining, Ok or Err
    closes,          \* number of calls of close()
    close_called,    \* close() has sent on the termination channel
    passed_after,    \* termination checks after that which let the loop go on
    event_join,      \* the join() the spawned thread makes when it drops its node
    joiner2,         \* the join() of a second thread: idle, joining, Ok or Err
    last_join,       \* the latest call of join(): caller, handle found, outcome
    \* ---- TlsServer (p2p.rs conn_event, cleanup_connections) ----
    tls_mode,        \* P2PNodeMode of the node
    tls_conns,       \* TlsServer.connections: token -> connection
    peers_gauge,     \* the exporter's count of peers (peers_inc, peers_dec)
    banned_peers,    \* TlsServer.banned_peers
    tls_now,         \* common::get_current_stamp()
    invalid_count,   \* token -> messages received that did not parse
    tls_last,        \* the latest handler: its name and the connections it removed
    tls_events,      \* number of socket events handled
    \* ---- validation of inbound packets (p2p.rs validate_packet) ----
    boot_mode,       \* P2PNodeMode of the node
    boot_stream,     \* the bytes a peer sends on its connection
    boot_pos,        \* how many of them have been read
    boot_conn,       \* the connection: buffer, sizes, closing, packets handed on
    \* ---- promotion of a connection (connection/mod.rs promote_to_post_handshake) ----
    shared_conns,    \* the connections other threads hold: is_post_handshake and remote_peer.id
    promote_pc,      \* token -> where its promote_to_post_handshake stands
    observed,        \* what another thread last read of a connection
    \* ---- threads in accept and connect ----
    race_pc,         \* where each thread is in its call
    race_call,       \* the call of each thread: function and remote address
    candidates_lock, \* the thread that holds the conn_candidates mutex
    \* ---- the networks of the TlsServer ----
    server_networks, \* TlsServer.networks, the networks the node has joined
    request_queue,   \* P2PNode.send_queue, the join and leave requests in it
    last_request,    \* the request processed last and the networks before it
    \* ---- the packets that were sent again ----
    retried,         \* for every packet that failed, the times process_resend_queue tried it
    \* ---- the consensus out queue and the bakers ----
    bakers,          \* ConsensusContainer.bakers, the ids of the running bakers
    out_queue,       \* CALLBACK_QUEUE, the envelopes in its channel
    receiver_request,\* the thread that holds the mutex of the receiver
    consumer_pc,     \* where the consumer is in recv_message
    stop_pc,         \* where the stopping thread is in stop_baker
    stop_baker_id,   \* the baker that stop_baker was called for
    last_envelope,   \* the envelope recv_message returned last
    stops_sent,      \* Stop envelopes sent so far
    stops_received,  \* Stop envelopes recv_message returned so far
    \* ---- the block tree of the global state ----
    pending_blocks,  \* the blocks that may be submitted, by hash
    submitted,       \* hashes of the blocks given to add_block so far
    skov_data,       \* SkovData: block_tree, orphan_blocks, awaiting_last_finalized, last_finalized
    skov_result      \* the SkovResult of the last call

varsBuckets == <<buckets, bk_pre, bk_op, filled, updated, ops>>

varsConns == <<connections, conn_candidates, next_token>>

varsRouter == <<relay_pct, sent, last_call, send_queue, resend_queue,
                max_resend_attempts>>

varsRecv == <<deduplication_queues, handled, forwarded, last_result,
              last_forward, recv_cfg, flooded, recvs, conn_changes>>

varsAdmit == <<soft_bans, hard_bans, admit_cfg, last_admit>>

varsSend == <<network_messages_hi, network_messages_lo, written, queued>>

varsHouse == <<clock, stats, house_cfg, housekept>>

varsFrame == <<stream, frames_in, pos, framer, closing>>

varsShake == <<mode, closing_tokens, last_handshake, shakes>>

varsBridge == <<callback_queue, bridge_pc, loop_interval_in, loop_interval_out,
                lo_taken, relays, stop_sent>>

varsJoin == <<event_join, joiner2, last_join>>

varsTls == <<tls_mode, tls_conns, peers_gauge, banned_peers, tls_now,
             invalid_count, tls_last, tls_events>>

varsBoot == <<boot_mode, boot_stream, boot_pos, boot_conn>>

varsLoop == <<quit_tx, quit_rx, loop_pc, join_handle, joiner, closes,
              close_called, passed_after, varsJoin>>

varsPromote == <<shared_conns, promote_pc, observed>>

varsRace == <<race_pc, race_call, candidates_lock>>

varsNets == <<server_networks, request_queue, last_request>>

varsResend == <<retried>>

varsStop == <<bakers, out_queue, receiver_request, consumer_pc, stop_pc,
              stop_baker_id, last_envelope, stops_sent, stops_received>>

varsSkov == <<pending_blocks, submitted, skov_data, skov_result>>

vars == <<varsBuckets, varsConns, varsRouter, varsRecv, varsAdmit,
          varsSend, varsHouse, varsFrame, varsShake, varsBridge, varsLoop,
          varsTls, varsBoot, varsPromote, varsRace, varsNets, varsResend,
          varsStop, varsSkov>>

(***************************************************************************)
(* Bounds of the exploration.                                              *)
(***************************************************************************)
\* distinct peers that connect one after another (one more than a bucket holds)
MaxFill == 21
\* further Buckets operations with freely chosen arguments
MaxOps == 2
\* node ids of the model are below 2^IdBits
IdBits == 6
\* established connections of the routing model
MaxPeers == 5

MaxRecv == 2

MaxBans == 1

MaxSends == 4

MaxClock == 4
\* connections of a node whose iteration orders are all explored
MaxIterated == 3
\* frames in a stream, and bytes in the payload of a frame
MaxFrames == 2

MaxPayload == 2
\* Handshake requests a node receives
MaxShakes == 2
\* messages a queue of the consensus bridge holds, and messages sent to the
\* queues other than in_hi (in_hi gets messages without end)
MaxQueue == 2

MaxRelays == 2
\* calls of close() on a node
MaxCloses == 3
\* socket events handled by the TlsServer
MaxTlsEvents == 3
\* value the counter of the connection tokens may reach
MaxTokens == 3
\* join and leave requests in the send_queue
MaxNetRequests == 3
\* packets that are sent and may fail
MaxResendPackets == 3
\* envelopes in the channel of the consensus out queue
MaxOutQueue == 3
\* calls of stop_baker
MaxStops == 2
\* blocks that are submitted to the block tree
MaxBlocks == 3
\* threads that call accept and connect at once
MaxThreads == 2
\* connections that are promoted
MaxPromoted == 3

MaxFlood == 64

DigestSpace == 100

(***************************************************************************)
(* Program constants.                                                      *)
(***************************************************************************)
BUCKET_SIZE == 20
KEY_SIZE == 256

\* TlsServer.own_id: the id of the local node
OwnId == 1

SHORT_DEDUP_SIZE == 64

LONG_QUEUE_SIZE == 32 * 1024

\* the time limits of config, in units of the model's clock
MAX_PREHANDSHAKE_KEEP_ALIVE == 1

MAX_NORMAL_KEEP_ALIVE == 2

MAX_BOOTSTRAPPER_KEEP_ALIVE == 3

UNREACHABLE_EXPIRATION_SECS == 2

(***************************************************************************)
(* P2PPeer and P2PNodeId.                                                  *)
(***************************************************************************)
\* A P2PPeer: node id, ip:port (one number), time it was last seen.
P2PPeer(id, addr, seen) == [id |-> id, addr |-> addr, last_seen |-> seen]

NoPeer == [id |-> 0, addr |-> 0, last_seen |-> 0]

\* P2PPeer equality: two peers are equal when their ids are equal or when
\* their ip and port are equal (what both Buckets tests of p2p.rs rely on).
PeerEq(a, b) == a.id = b.id \/ a.addr = b.addr

RECURSIVE BitXor(_, _)
BitXor(a, b) ==
    IF a = 0 THEN b
    ELSE IF b = 0 THEN a
    ELSE (((a % 2) + (b % 2)) % 2) + 2 * BitXor(a \div 2, b \div 2)

\* Buckets::distance: from.get_id() ^ to.get_id()
distance(from, to) == BitXor(from, to)

\* dist >= pow(2, i) && dist < pow(2, i + 1).  Ids are below 2^IdBits, so for
\* i >= IdBits the first comparison is false.
InBucketRange(dist, i) ==
    IF i >= IdBits THEN FALSE ELSE dist >= 2^i /\ dist < 2^(i + 1)

(***************************************************************************)
(* Buckets.                                                                *)
(***************************************************************************)
BucketIdx == 0 .. (KEY_SIZE - 1)

\* Buckets::new: KEY_SIZE empty buckets
Buckets_new == [i \in BucketIdx |-> << >>]

Entry(node, nids) == [peer |-> node, nids |-> nids]

\* x.retain(|ele| ele.0 != *node)
RetainNot(x, node) == SelectSeq(x, LAMBDA ele : ~PeerEq(ele.peer, node))

\* The loop of insert_into_bucket from index i on: every bucket visited drops
\* the entries equal to node; the bucket whose range holds dist drops its
\* first entry when full, gets the node pushed, and the loop breaks.  From
\* index IdBits on no range holds dist, so the loop visits every bucket that
\* is left.
RECURSIVE insert_loop(_, _, _, _, _)
insert_loop(b, i, node, dist, nids) ==
    IF i >= KEY_SIZE THEN b
    ELSE IF i >= IdBits
    THEN [j \in BucketIdx |-> IF j >= i THEN RetainNot(b[j], node) ELSE b[j]]
    ELSE LET x == RetainNot(b[i], node) IN
         IF InBucketRange(dist, i)
         THEN LET y == IF Len(x) >= BUCKET_SIZE THEN Tail(x) ELSE x
              IN  [b EXCEPT ![i] = Append(y, Entry(node, nids))]
         ELSE insert_loop([b EXCEPT ![i] = x], i + 1, node, dist, nids)

insert_into_bucket(b, node, own_id, nids) ==
    insert_loop(b, 0, node, distance(own_id, node.id), nids)

\* update_network_ids: the loop breaks in its first iteration, so bucket 0 is
\* the only bucket it touches.
update_network_ids(b, node, nids) ==
    [b EXCEPT ![0] = Append(RetainNot(b[0], node), Entry(node, nids))]

\* clean_peers_older_than: every bucket keeps the entries seen at or after
\* older_than
clean_peers_older_than(b, older_than) ==
    [i \in BucketIdx |->
        SelectSeq(b[i], LAMBDA ele : ele.peer.last_seen >= older_than)]

\* Buckets::len
RECURSIVE SumLen(_, _)
SumLen(b, i) == IF i >= KEY_SIZE THEN 0 ELSE Len(b[i]) + SumLen(b, i + 1)
Buckets_len(b) == SumLen(b, 0)

(***************************************************************************)
(* The peers the Buckets operations are called with.                       *)
(***************************************************************************)
\* The k-th peer to connect: ids 32, 33, ... all at a distance in [32, 64)
\* of OwnId, each with its own address.
FillPeer(k) == P2PPeer((2^5) + k, 100 + k, 1 + (k % 2))

PeerInputs ==
    { P2PPeer(2^5, 201, 2),      \* the id of FillPeer(0) at another port
      P2PPeer((2^5) + 1, 100, 2),  \* the address of FillPeer(0), another id, same bucket
      P2PPeer(3, 100, 2) }       \* the address of FillPeer(0), an id of a lower bucket

NidsInputs == { << >>, <<100>> }

StampInputs == { 2 }

BkOp(kind, node) == [kind |-> kind, peer |-> node]


\* Buckets::new, and nothing done yet
BucketsInit ==
    /\ buckets = Buckets_new
    /\ bk_pre = Buckets_new
    /\ bk_op = BkOp("new", NoPeer)
    /\ filled = 0
    /\ updated = 0
    /\ ops = 0

(***************************************************************************)
(* Connections.                                                            *)
(***************************************************************************)
Node == "Node"
Bootstrapper == "Bootstrapper"

\* Option<P2PNodeId>::None
NoId == 0

\* A Connection: its poll token, the remote address, the remote peer's type
\* and id (NoId until the handshake), whether it is post-handshake, and the
\* remote end's networks.
Connection(token, addr, ptype, id, post, nets) ==
    [token |-> token, addr |-> addr, peer_type |-> ptype, id |-> id,
     is_post_handshake |-> post, remote_end_networks |-> nets]

NoConns == [t \in {} |-> Connection(t, 0, Node, NoId, FALSE, {})]

\* map.insert(token, conn)
MapInsert(map, token, conn) ==
    [t \in (DOMAIN map) \cup {token} |-> IF t = token THEN conn ELSE map[t]]

\* map.remove(token)
MapRemove(map, token) == [t \in (DOMAIN map) \ {token} |-> map[t]]

\* TlsServer::new / ConnectionHandler: no connection yet; token 0 is the
\* server's, connection tokens start after it
ConnsInit ==
    /\ connections = NoConns
    /\ conn_candidates = NoConns
    /\ next_token = 1

(***************************************************************************)
(* Routing of outbound packets.                                            *)
(***************************************************************************)
\* PacketDestination
Direct(receiver) == [tag |-> "Direct", receiver |-> receiver, dont_relay_to |-> {}]
Broadcast(dont_relay_to) ==
    [tag |-> "Broadcast", receiver |-> NoId, dont_relay_to |-> dont_relay_to]

\* NetworkPacket; peer is the sender the p2p_node.rs packet carries
NetworkPacket(destination, network_id, peer) ==
    [destination |-> destination, network_id |-> network_id, peer |-> peer]

NoCall == [fn |-> "none", pkt |-> NetworkPacket(Direct(NoId), 0, NoId), skip |-> {}]

\* get_node_peer_ids / get_all_current_peers(Some(PeerType::Node)): the ids
\* of the established connections to peers of type Node
get_node_peer_ids(conns) ==
    {conns[t].id : t \in {u \in DOMAIN conns : conns[u].peer_type = Node}}

\* f64::floor(f64::from(len as u32) * relay_broadcast_percentage) as usize.
\* For the percentages and the sizes of the model the floating-point product
\* has the floor of the exact product (0.4 * 5 is 2.0 in f64).
peers_to_take(len, pct) == (len * pct) \div 100

\* peers.choose_multiple(&mut rng, amount): any amount elements, or all of
\* them when there are fewer
choose_multiple(peers, amount) ==
    IF amount >= Cardinality(peers) THEN {peers}
    ELSE {c \in SUBSET peers : Cardinality(c) = amount}

\* connectivity.rs process_network_packet: the sets peers_to_skip may be
peers_to_skip_choices(conns, pct, destination) ==
    IF destination.tag = "Direct" THEN {{}}
    ELSE IF pct < 100
         THEN LET peers == get_node_peer_ids(conns) \ destination.dont_relay_to
              IN  choose_multiple(peers, peers_to_take(Cardinality(peers), pct))
         ELSE {destination.dont_relay_to}

\* connectivity.rs is_valid_broadcast_target
is_valid_broadcast_target(conn, peers_to_skip, network_id) ==
    /\ conn.peer_type # Bootstrapper
    /\ conn.id \notin peers_to_skip
    /\ network_id \in conn.remote_end_networks

\* the filter of the direct branch of connectivity.rs process_network_packet
is_direct_target(conn, target_id) == conn.id = target_id

\* send_over_all_connections: the established connections the filter keeps
\* (conn_filter maps each connection's token to the filter's verdict on it)
send_over_all_connections(conns, conn_filter) ==
    {t \in DOMAIN conns : conn_filter[t]}

\* p2p_node.rs process_network_packet: the sets not_valid_receivers may be
not_valid_receivers_choices(conns, pct, destination) ==
    IF destination.tag = "Direct" THEN {{}}
    ELSE IF pct < 100
         THEN LET peers == get_node_peer_ids(conns)
              IN  choose_multiple(peers, peers_to_take(Cardinality(peers), pct))
         ELSE {{}}

\* p2p_node.rs is_conn_peer_id
is_conn_peer_id(conn, id) == conn.is_post_handshake /\ conn.id = id

\* p2p_node.rs ResendQueueEntry (without the time of the last attempt)
ResendQueueEntry(message, attempts) == [message |-> message, attempts |-> attempts]

\* values of config.max_resend_attempts
ResendInputs == {0, 2}

\* p2p.rs: Token(0), which find_connection takes to mean that it found nothing
NoToken == 0

\* p2p.rs: the networks of the node itself
own_networks == {100}

\* the orders in which a HashMap with these keys may be iterated
RECURSIVE IterationOrders(_)
IterationOrders(keys) ==
    IF keys = {} THEN {<< >>}
    ELSE UNION {{<<k>> \o o : o \in IterationOrders(keys \ {k})} : k \in keys}

\* p2p.rs TlsServer::find_connection: the loop keeps the token of a matching
\* connection and stops at the first connection that does not match
RECURSIVE find_connection_loop(_, _, _, _)
find_connection_loop(conns, order, id, tok) ==
    IF order = << >> THEN tok
    ELSE LET connection == conns[Head(order)] IN
         IF connection.is_post_handshake /\ connection.id = id
         THEN find_connection_loop(conns, Tail(order), id, Head(order))
         ELSE tok

find_connection(conns, order, id) == find_connection_loop(conns, order, id, NoToken)

\* p2p_node.rs is_valid_connection_in_broadcast
is_valid_connection_in_broadcast(conn, sender, peers_to_skip, network_id) ==
    /\ conn.is_post_handshake
    /\ conn.peer_type # Bootstrapper
    /\ conn.id # sender
    /\ conn.id \notin peers_to_skip
    /\ network_id \in conn.remote_end_networks

(***************************************************************************)
(* The inputs of the routing model.                                        *)
(***************************************************************************)
RelayInputs == {40, 50, 100}

NetworkInputs == {100, 200}

\* the id of the peer behind the k-th established connection
PeerIdOf(k) == 10 + k

\* the first peer to connect may be a bootstrapper
PeerTypeInputs(k) == IF k = 1 THEN {Node, Bootstrapper} ELSE {Node}

ExclusionInputs(conns) ==
    {{}} \cup {{conns[t].id} : t \in DOMAIN conns}

DestinationInputs(conns) ==
    {Direct(conns[t].id) : t \in DOMAIN conns}
      \cup {Direct(PeerIdOf(0))}
      \cup {Broadcast(x) : x \in ExclusionInputs(conns)}

\* the packets p2p_node.rs routes carry their exclusion in the sender
SenderDestinationInputs(conns) ==
    {Direct(conns[t].id) : t \in DOMAIN conns} \cup {Direct(PeerIdOf(0))}
        \cup {Broadcast({})}

\* direct messages to the connected peers and to a peer that is not connected
DirectInputs(conns) ==
    {Direct(conns[t].id) : t \in DOMAIN conns} \cup {Direct(PeerIdOf(0))}

\* config.relay_broadcast_percentage and config.max_resend_attempts are fixed
\* at start-up; nothing routed yet
RouterInit ==
    /\ relay_pct \in RelayInputs
    /\ sent = {}
    /\ last_call = NoCall
    /\ send_queue = << >>
    /\ resend_queue = << >>
    /\ max_resend_attempts \in ResendInputs

\* the router of a node that relays to every peer and routes nothing
RouterIdle ==
    /\ relay_pct = 100
    /\ sent = {}
    /\ last_call = NoCall
    /\ send_queue = << >>
    /\ resend_queue = << >>
    /\ max_resend_attempts = 0

OutsideRouter ==
    UNCHANGED <<varsBuckets, varsRecv, varsAdmit, varsSend, varsHouse,
                varsFrame, varsShake, varsBridge, varsLoop, varsTls,
                varsBoot, varsPromote, varsRace, varsNets, varsResend,
                varsStop, varsSkov>>

\* A peer completes its handshake on a new connection, which becomes an
\* established connection (promote_to_post_handshake).  The exploration ends
\* with the first message that is kept for a later attempt.
Establish ==
    /\ Cardinality(DOMAIN connections) < MaxPeers
    /\ send_queue = << >> /\ resend_queue = << >>
    /\ \E ptype \in PeerTypeInputs(next_token), net \in NetworkInputs :
          connections' = MapInsert(connections, next_token,
              Connection(next_token, next_token, ptype, PeerIdOf(next_token),
                         TRUE, {net}))
    /\ next_token' = next_token + 1
    /\ sent' = {}
    /\ last_call' = NoCall
    /\ UNCHANGED <<conn_candidates, relay_pct, send_queue, resend_queue,
                   max_resend_attempts>>
    /\ OutsideRouter

\* connectivity.rs P2PNode::process_network_packet
process_network_packet ==
    /\ last_call = NoCall
    /\ \E destination \in DestinationInputs(connections) :
       \E peers_to_skip \in
               peers_to_skip_choices(connections, relay_pct, destination) :
          LET inner_pkt == NetworkPacket(destination, 100, NoId) IN
          /\ sent' =
                IF destination.tag = "Direct"
                THEN send_over_all_connections(connections,
                        [t \in DOMAIN connections |->
                            is_direct_target(connections[t], destination.receiver)])
                ELSE send_over_all_connections(connections,
                        [t \in DOMAIN connections |->
                            is_valid_broadcast_target(connections[t],
                                peers_to_skip, inner_pkt.network_id)])
          /\ last_call' = [fn |-> "connectivity", pkt |-> inner_pkt,
                           skip |-> peers_to_skip]
    /\ UNCHANGED <<connections, conn_candidates, next_token, relay_pct,
                   send_queue, resend_queue, max_resend_attempts>>
    /\ OutsideRouter

\* p2p_node.rs P2PNode::process_messages with one NetworkPacket on the send
\* queue: process_network_packet, and the resend queue for a packet that it
\* reports as not sent
p2p_node_process_network_packet ==
    /\ last_call = NoCall
    /\ resend_queue = << >>
    /\ \E destination \in SenderDestinationInputs(connections) :
       \E sender \in {connections[u].id : u \in DOMAIN connections} :
       \E peers_to_skip \in
               not_valid_receivers_choices(connections, relay_pct, destination) :
          LET inner_pkt == NetworkPacket(destination, 100, sender) IN
          /\ sent' =
                IF destination.tag = "Direct"
                THEN send_over_all_connections(connections,
                        [t \in DOMAIN connections |->
                            is_conn_peer_id(connections[t], destination.receiver)])
                ELSE send_over_all_connections(connections,
                        [t \in DOMAIN connections |->
                            is_valid_connection_in_broadcast(connections[t],
                                inner_pkt.peer, peers_to_skip,
                                inner_pkt.network_id)])
          /\ last_call' = [fn |-> "p2p_node", pkt |-> inner_pkt,
                           skip |-> peers_to_skip]
          /\ LET ret == IF destination.tag = "Direct"
                        THEN Cardinality(sent') >= 1 ELSE TRUE
             IN resend_queue' =
                   IF ~ret /\ max_resend_attempts > 0
                   THEN Append(resend_queue, ResendQueueEntry(inner_pkt, 0))
                   ELSE resend_queue
    /\ UNCHANGED <<connections, conn_candidates, next_token, relay_pct,
                   send_queue, max_resend_attempts>>
    /\ OutsideRouter

\* p2p.rs P2PNode::process_messages with one direct message on the send
\* queue: the message is popped, sent on the connection find_connection
\* gives, and appended to the send queue again when it gives none
p2p_process_messages ==
    /\ last_call = NoCall
    /\ send_queue = << >>
    /\ Cardinality(DOMAIN connections) <= MaxIterated
    /\ \E destination \in DirectInputs(connections) :
       \E order \in IterationOrders(DOMAIN connections) :
          LET inner_pkt == NetworkPacket(destination, 100, NoId)
              tok == find_connection(connections, order, destination.receiver)
          IN
          /\ sent' = IF tok # NoToken /\ inner_pkt.network_id \in own_networks
                     THEN {tok} ELSE {}
          /\ send_queue' = IF tok = NoToken THEN <<inner_pkt>> ELSE << >>
          /\ last_call' = [fn |-> "p2p", pkt |-> inner_pkt, skip |-> {}]
    /\ UNCHANGED <<connections, conn_candidates, next_token, relay_pct,
                   resend_queue, max_resend_attempts>>
    /\ OutsideRouter

RouterNext ==
    \/ Establish
    \/ process_network_packet
    \/ p2p_node_process_network_packet
    \/ p2p_process_messages

(***************************************************************************)
(* Inbound messages and the deduplication queues.                          *)
(***************************************************************************)
\* NetworkMessage: what deserialize gives ("Invalid" when it fails); a
\* NetworkPacket's message starts with its u16 packet type, the rest is the
\* payload
NetworkMessage(kind, ptype, payload) ==
    [kind |-> kind, ptype |-> ptype, payload |-> payload]

Packet(ptype, payload) == NetworkMessage("Packet", ptype, payload)
Request(kind) == NetworkMessage(kind, "none", 0)

HandshakeKinds == {"HandshakeRequest", "HandshakeResponse"}

\* CircularQueue<[u8; 8]>; pushed counts the pushes the queue has seen
CircularQueue_with_capacity(capacity) ==
    [capacity |-> capacity, items |-> << >>, pushed |-> 0]

\* a push that keeps every element
CircularQueue_push_growing(queue, x) ==
    [queue EXCEPT !.items = Append(@, x), !.pushed = @ + 1]

\* CircularQueue::push overwrites the oldest element of a full queue
CircularQueue_push(queue, x) ==
    [queue EXCEPT !.items = IF Len(@) >= queue.capacity
                            THEN Append(Tail(@), x) ELSE Append(@, x),
                  !.pushed = @ + 1]

\* queue.iter().any(|h| h == &hash)
CircularQueue_any(queue, hash) ==
    \E i \in 1 .. Len(queue.items) : queue.items[i] = hash

DeduplicationQueues_default ==
    [finalizations |-> CircularQueue_with_capacity(LONG_QUEUE_SIZE),
     transactions  |-> CircularQueue_with_capacity(LONG_QUEUE_SIZE),
     blocks        |-> CircularQueue_with_capacity(SHORT_DEDUP_SIZE),
     fin_records   |-> CircularQueue_with_capacity(SHORT_DEDUP_SIZE)]

\* XxHash64::digest: many payloads share a digest
XxHash64(bytes) == bytes % DigestSpace

\* dedup_with that never remembers a digest
dedup_with_forgetful(message, queue) == [is_duplicate |-> FALSE, queue |-> queue]

\* dedup_with: the verdict and the queue afterwards
dedup_with(message, queue) ==
    LET hash == XxHash64(message) IN
    IF ~CircularQueue_any(queue, hash)
    THEN [is_duplicate |-> FALSE, queue |-> CircularQueue_push(queue, hash)]
    ELSE [is_duplicate |-> TRUE, queue |-> queue]

\* the match of is_packet_duplicate: the queue of a packet type
QueueOf(ptype) ==
    CASE ptype = "FinalizationMessage" -> "finalizations"
      [] ptype = "Transaction" -> "transactions"
      [] ptype = "Block" -> "blocks"
      [] ptype = "FinalizationRecord" -> "fin_records"
      [] OTHER -> "none"

\* Connection::is_packet_duplicate: the verdict and the queues afterwards
is_packet_duplicate(packet, queues) ==
    IF QueueOf(packet.ptype) = "none"
    THEN [is_duplicate |-> FALSE, queues |-> queues]
    ELSE LET q == QueueOf(packet.ptype)
             r == dedup_with(packet.payload, queues[q])
         IN  [is_duplicate |-> r.is_duplicate,
              queues |-> [queues EXCEPT ![q] = r.queue]]

\* is_msg_processable with the handshake test left out
is_msg_processable_any(conn, message) == TRUE

\* process_message: is_msg_processable
is_msg_processable(conn, message) ==
    IF message.kind \in HandshakeKinds THEN TRUE ELSE conn.is_post_handshake

\* process_message: is_msg_forwardable
is_msg_forwardable(message, cfg) ==
    CASE message.kind \in {"BanNode", "UnbanNode"} -> ~cfg.no_trust_bans
      [] message.kind = "Packet" -> cfg.is_rpc_online
      [] OTHER -> FALSE

\* Connection::promote_to_post_handshake
promote_to_post_handshake(conn, id) ==
    [conn EXCEPT !.is_post_handshake = TRUE, !.id = id]

\* every connection of the node, candidate or established, by token
AllConns ==
    [t \in (DOMAIN connections) \cup (DOMAIN conn_candidates) |->
        IF t \in DOMAIN connections THEN connections[t] ELSE conn_candidates[t]]

\* what process_message did with a message: the connection, whether it was
\* post-handshake on arrival, the message, and the number of pushes its
\* deduplication queue had seen once it was looked up
Processed(token, post, message, pushed) ==
    [token |-> token, post |-> post, msg |-> message, pushed |-> pushed]

Outcome(kind, token, post, message) ==
    [outcome |-> kind, token |-> token, post |-> post, msg |-> message]

NoOutcome == Outcome("none", 0, FALSE, Request("none"))

\* ConnChange::Expulsion(token)
Expulsion(token) == [change |-> "Expulsion", token |-> token]

PushedOf(queues, ptype) ==
    IF QueueOf(ptype) = "none" THEN 0 ELSE queues[QueueOf(ptype)].pushed

\* a BanNode or UnbanNode request: the message carries the BannedNode, its
\* variant as ptype and the banned id or ip as payload
BanRequest(kind, banned) ==
    NetworkMessage(kind, banned.tag,
                   IF banned.tag = "ById" THEN banned.id ELSE banned.ip)

\* the BannedNode of a BanNode request
peer_to_ban(message) ==
    IF message.ptype = "ById" THEN [tag |-> "ById", id |-> message.payload, ip |-> 0]
    ELSE [tag |-> "ByAddr", id |-> NoId, ip |-> message.payload]

\* forward_network_message: conn_filter; peer() is None before the handshake
conn_filter(conn, message) ==
    IF message.kind = "BanNode"
    THEN IF conn.id = NoId THEN TRUE
         ELSE IF peer_to_ban(message).tag = "ById"
              THEN conn.id # peer_to_ban(message).id
              ELSE conn.addr.ip # peer_to_ban(message).ip
    ELSE TRUE

\* a forwarding that also sends the request back where it came from
forward_network_message_to_sender(self_token, message, conns) ==
    {conns[t] : t \in {t \in DOMAIN conns :
                          /\ conns[t].is_post_handshake
                          /\ conn_filter(conns[t], message)}}

\* Connection::forward_network_message: the connections the serialized
\* request is sent to
forward_network_message(self_token, message, conns) ==
    {conns[t] : t \in {t \in DOMAIN conns :
                          /\ conns[t].is_post_handshake
                          /\ t # self_token
                          /\ conn_filter(conns[t], message)}}

\* what forward_network_message did: the connection the request arrived
\* on, the request, and the connections it was sent to
Forward(token, message, targets) ==
    [from |-> token, msg |-> message, to |-> targets]

NoForward == Forward(0, Request("none"), {})

\* handle_incoming_message: the message is handled; a handshake on a
\* connection that has not shaken hands promotes it
HandleIncomingMessage(token, conn, message, pushed) ==
    /\ handled' = Append(handled,
                         Processed(token, conn.is_post_handshake, message, pushed))
    /\ IF message.kind \in HandshakeKinds /\ ~conn.is_post_handshake
       THEN /\ connections' = MapInsert(connections, token,
                                  promote_to_post_handshake(conn, PeerIdOf(token)))
            /\ conn_candidates' = MapRemove(conn_candidates, token)
       ELSE UNCHANGED <<connections, conn_candidates>>

\* Connection::process_message
ProcessMessage(token, message) ==
    LET conn == AllConns[token]
        post == conn.is_post_handshake
    IN
    IF message.kind = "Invalid"
    THEN /\ last_result' = Outcome("invalid", token, post, message)
         /\ UNCHANGED <<deduplication_queues, handled, forwarded,
                        last_forward, connections, conn_candidates>>
    ELSE IF message.kind = "Packet" /\ recv_cfg.self_peer_type = Bootstrapper
    THEN /\ last_result' = Outcome("disregarded", token, post, message)
         /\ UNCHANGED <<deduplication_queues, handled, forwarded,
                        last_forward, connections, conn_candidates>>
    ELSE LET d == IF message.kind = "Packet"
                  THEN is_packet_duplicate(message, deduplication_queues)
                  ELSE [is_duplicate |-> FALSE, queues |-> deduplication_queues]
             pushed == PushedOf(d.queues, message.ptype)
         IN
         /\ deduplication_queues' = d.queues
         /\ IF d.is_duplicate
            THEN /\ last_result' = Outcome("duplicate", token, post, message)
                 /\ UNCHANGED <<handled, forwarded, last_forward, connections,
                                conn_candidates>>
            ELSE IF is_msg_processable(conn, message)
            THEN /\ HandleIncomingMessage(token, conn, message, pushed)
                 /\ forwarded' =
                       IF is_msg_forwardable(message, recv_cfg)
                       THEN Append(forwarded, Processed(token, post, message, pushed))
                       ELSE forwarded
                 /\ last_forward' =
                       IF is_msg_forwardable(message, recv_cfg)
                          /\ message.kind # "Packet"
                       THEN Forward(token, message,
                                forward_network_message(token, message,
                                                        connections'))
                       ELSE last_forward
                 /\ last_result' = Outcome("processed", token, post, message)
            ELSE /\ last_result' = Outcome("refused", token, post, message)
                 /\ UNCHANGED <<handled, forwarded, last_forward, connections,
                                conn_candidates>>

(***************************************************************************)
(* The inputs of the receiving model.                                      *)
(***************************************************************************)
MessageInputs ==
    { Request("Invalid"), Request("HandshakeRequest"), Request("Ping"),
      Packet("Block", 1), Packet("Block", 2), Packet("Block", 2 + DigestSpace),
      Packet("Transaction", 1), Packet("Direct", 1) }

\* the other messages arrive before the burst of blocks, or around its end
RecvPoints == {0, MaxFlood - 1, MaxFlood}

\* the k-th block of a burst of new blocks
FloodBlock(k) == Packet("Block", 2 + k)

RecvCfgInputs ==
    { [self_peer_type |-> Node, is_rpc_online |-> TRUE, no_trust_bans |-> FALSE],
      [self_peer_type |-> Bootstrapper, is_rpc_online |-> FALSE,
       no_trust_bans |-> TRUE] }

\* one inbound connection that has not shaken hands yet, one established
\* connection
RecvConnsInit ==
    /\ conn_candidates = MapInsert(NoConns, 1, Connection(1, 1, Node, NoId, FALSE, {}))
    /\ connections =
          MapInsert(NoConns, 2, Connection(2, 2, Node, PeerIdOf(2), TRUE, {100}))
    /\ next_token = 3

RecvInit ==
    /\ deduplication_queues = DeduplicationQueues_default
    /\ handled = << >>
    /\ forwarded = << >>
    /\ last_result = NoOutcome
    /\ last_forward = NoForward
    /\ recv_cfg \in RecvCfgInputs
    /\ flooded = 0
    /\ recvs = 0
    /\ conn_changes = {}

\* a node that has received nothing
RecvIdle ==
    /\ deduplication_queues = DeduplicationQueues_default
    /\ handled = << >>
    /\ forwarded = << >>
    /\ last_result = NoOutcome
    /\ last_forward = NoForward
    /\ recv_cfg = [self_peer_type |-> Node, is_rpc_online |-> FALSE,
                   no_trust_bans |-> FALSE]
    /\ flooded = 0
    /\ recvs = 0
    /\ conn_changes = {}

OutsideRecv ==
    UNCHANGED <<varsBuckets, varsRouter, next_token, varsAdmit, varsSend,
                varsHouse, varsFrame, varsShake, varsBridge, varsLoop,
                varsTls, varsBoot, varsPromote, varsRace, varsNets,
                varsResend, varsStop, varsSkov>>

\* process_network_events, for a readable connection whose stream holds one
\* message: an error of process_message is not an io::Error, so it registers
\* the expulsion of the connection
ReadStream(token, message) ==
    /\ ProcessMessage(token, message)
    /\ conn_changes' = IF last_result'.outcome = "refused"
                       THEN conn_changes \cup {Expulsion(token)}
                       ELSE conn_changes

\* a message arrives on some connection
process_message ==
    /\ recvs < MaxRecv
    /\ flooded \in RecvPoints
    /\ \E token \in DOMAIN AllConns, message \in MessageInputs :
          ReadStream(token, message)
    /\ recvs' = recvs + 1
    /\ UNCHANGED <<recv_cfg, flooded>>
    /\ OutsideRecv

\* an established peer sends the next block of a burst of new blocks
PeerFloodsBlocks ==
    /\ flooded < MaxFlood
    /\ ReadStream(2, FloodBlock(flooded))
    /\ flooded' = flooded + 1
    /\ UNCHANGED <<recv_cfg, recvs>>
    /\ OutsideRecv

RecvNext ==
    \/ process_message
    \/ PeerFloodsBlocks

\* the ban requests a peer may send: of an established peer by id, of an
\* address two established peers share, of a stranger, and an unban
BanRequestInputs ==
    { BanRequest("BanNode", [tag |-> "ById", id |-> PeerIdOf(2), ip |-> 0]),
      BanRequest("BanNode", [tag |-> "ByAddr", id |-> NoId, ip |-> 3]),
      BanRequest("BanNode", [tag |-> "ById", id |-> PeerIdOf(9), ip |-> 0]),
      BanRequest("UnbanNode", [tag |-> "ById", id |-> PeerIdOf(2), ip |-> 0]) }

\* four established peers, the last two at one ip, and a candidate at that
\* ip that has not shaken hands
BanConnsInit ==
    /\ conn_candidates =
          MapInsert(NoConns, 5,
              Connection(5, [ip |-> 3, port |-> 8002], Node, NoId, FALSE, {}))
    /\ connections =
          [t \in 1 .. 4 |->
              Connection(t, [ip |-> IF t = 4 THEN 3 ELSE t,
                             port |-> IF t = 4 THEN 8001 ELSE 8000],
                         Node, PeerIdOf(t), TRUE, {100})]
    /\ next_token = 6

\* a ban request arrives on some connection
process_ban_request ==
    /\ recvs < MaxRecv
    /\ \E token \in DOMAIN AllConns, message \in BanRequestInputs :
          ReadStream(token, message)
    /\ recvs' = recvs + 1
    /\ UNCHANGED <<recv_cfg, flooded>>
    /\ OutsideRecv

BanForwardNext == process_ban_request

(***************************************************************************)
(* Admission of connections: accept and connect.                           *)
(***************************************************************************)
\* SocketAddr
SocketAddr(ip, port) == [ip |-> ip, port |-> port]

\* BanId, the key of the soft bans
BanId_Ip(ip) == [tag |-> "Ip", ip |-> ip, port |-> 0]
BanId_Socket(addr) == [tag |-> "Socket", ip |-> addr.ip, port |-> addr.port]

\* BannedNode, a hard ban
BannedNode_ById(id) == [tag |-> "ById", id |-> id, ip |-> 0]
BannedNode_ByAddr(ip) == [tag |-> "ByAddr", id |-> NoId, ip |-> ip]

\* soft_bans of a node that has banned nobody
NoBans == [b \in {} |-> 0]

\* the node's own listening address
SelfAddr == SocketAddr(9, 8888)

\* get_peer_stats(Some(peer_type)): the established peers of a type
get_peer_stats(conns, peer_type) ==
    {t \in DOMAIN conns : conns[t].peer_type = peer_type}

\* how an accept or a connect ended; hard_banned tells whether a hard ban
\* matched the remote's id or ip when it was called
Admission(fn, outcome, addr, id, hard_banned) ==
    [fn |-> fn, outcome |-> outcome, addr |-> addr, id |-> id,
     hard_banned |-> hard_banned]

NoAdmission == Admission("none", "none", SocketAddr(0, 0), NoId, FALSE)

\* a hard ban names the remote's id or its ip
IsHardBanned(bans, addr, id) ==
    \E b \in bans :
        \/ b.tag = "ByAddr" /\ b.ip = addr.ip
        \/ b.tag = "ById" /\ id # NoId /\ b.id = id

\* the values of a map
Values(map) == {map[t] : t \in DOMAIN map}

(***************************************************************************)
(* The inputs of the admission model.                                      *)
(***************************************************************************)
AddrInputs == {SocketAddr(1, 8000), SocketAddr(1, 8001), SocketAddr(2, 8000)}

\* connect's peer_type, peer_addr and peer_id
ConnectInputs ==
    { <<Node, SocketAddr(1, 8000), NoId>>,
      <<Node, SocketAddr(1, 8001), PeerIdOf(1)>>,
      <<Node, SocketAddr(2, 8000), PeerIdOf(2)>>,
      <<Bootstrapper, SocketAddr(2, 8000), NoId>>,
      <<Node, SelfAddr, NoId>>,
      <<Node, SocketAddr(1, 8001), OwnId>> }

BanInputs == {BannedNode_ByAddr(1), BannedNode_ById(PeerIdOf(2))}

AdmitCfgInputs ==
    { [hard_connection_limit |-> 3, max_allowed_nodes |-> 2],
      [hard_connection_limit |-> 3, max_allowed_nodes |-> 1] }

\* one peer, from another address, is connected already
AdmitConnsInit ==
    /\ conn_candidates = NoConns
    /\ connections =
          MapInsert(NoConns, 1,
              Connection(1, SocketAddr(3, 8000), Node, PeerIdOf(1), TRUE, {100}))
    /\ next_token = 2

AdmitInit ==
    /\ soft_bans = NoBans
    /\ hard_bans = {}
    /\ admit_cfg \in AdmitCfgInputs
    /\ last_admit = NoAdmission

\* a node that has admitted nobody
AdmitIdle ==
    /\ soft_bans = NoBans
    /\ hard_bans = {}
    /\ admit_cfg = [hard_connection_limit |-> 3, max_allowed_nodes |-> 2]
    /\ last_admit = NoAdmission

OutsideAdmit ==
    UNCHANGED <<varsBuckets, varsRouter, varsRecv, varsSend, varsHouse,
                varsFrame, varsShake, varsBridge, varsLoop, varsTls,
                varsBoot, varsPromote, varsRace, varsNets, varsResend,
                varsStop, varsSkov>>

\* a load of the counter in the place of the fetch_add
fetch_add_nothing(counter) == [value |-> counter, next |-> counter]

\* next_token.fetch_add(1, Ordering::SeqCst): the value returned and the
\* counter afterwards
fetch_add(counter) == [value |-> counter, next |-> counter + 1]

\* connectivity.rs accept: an inbound connection from addr
accept ==
    \E addr \in AddrInputs :
       LET banned == IsHardBanned(hard_bans, addr, NoId) IN
       /\ IF Cardinality(DOMAIN conn_candidates) + Cardinality(DOMAIN connections)
                >= admit_cfg.hard_connection_limit
          THEN /\ last_admit' = Admission("accept", "too many", addr, NoId, banned)
               /\ UNCHANGED <<conn_candidates, next_token>>
          ELSE IF \/ \E conn \in Values(conn_candidates) : conn.addr = addr
                  \/ \E conn \in Values(connections) : conn.addr = addr
          THEN /\ last_admit' = Admission("accept", "duplicate", addr, NoId, banned)
               /\ UNCHANGED <<conn_candidates, next_token>>
          ELSE IF BanId_Ip(addr.ip) \in DOMAIN soft_bans
          THEN /\ last_admit' = Admission("accept", "soft-banned", addr, NoId, banned)
               /\ UNCHANGED <<conn_candidates, next_token>>
          ELSE /\ conn_candidates' =
                     MapInsert(conn_candidates, fetch_add(next_token).value,
                         Connection(fetch_add(next_token).value, addr, Node,
                                    NoId, FALSE, {}))
               /\ next_token' = fetch_add(next_token).next
               /\ last_admit' = Admission("accept", "admitted", addr, NoId, banned)
       /\ UNCHANGED <<connections, soft_bans, hard_bans, admit_cfg>>
       /\ OutsideAdmit

\* connectivity.rs connect: dial peer_addr; TcpStream::connect may fail
connect ==
    \E input \in ConnectInputs, tcp_ok \in BOOLEAN :
       LET peer_type == input[1]
           peer_addr == input[2]
           peer_id == input[3]
           banned == IsHardBanned(hard_bans, peer_addr, peer_id)
           bail(why) ==
               /\ last_admit' = Admission("connect", why, peer_addr, peer_id, banned)
               /\ UNCHANGED <<conn_candidates, next_token, soft_bans>>
       IN
       /\ IF /\ peer_type = Node
             /\ Cardinality(get_peer_stats(connections, Node))
                    >= admit_cfg.max_allowed_nodes
          THEN bail("too many")
          ELSE IF peer_addr = SelfAddr \/ peer_id = OwnId
          THEN bail("myself")
          ELSE IF \/ BanId_Ip(peer_addr.ip) \in DOMAIN soft_bans
                  \/ BanId_Socket(peer_addr) \in DOMAIN soft_bans
          THEN bail("soft-banned")
          ELSE IF \E cc \in Values(conn_candidates) : cc.addr = peer_addr
          THEN bail("duplicate")
          ELSE IF \E conn \in Values(connections) :
                     \/ conn.addr = peer_addr
                     \/ peer_id # NoId /\ conn.id = peer_id
          THEN bail("duplicate")
          ELSE IF tcp_ok
          THEN /\ conn_candidates' =
                     MapInsert(conn_candidates, fetch_add(next_token).value,
                         Connection(fetch_add(next_token).value, peer_addr,
                                    peer_type, NoId, FALSE, {}))
               /\ next_token' = fetch_add(next_token).next
               /\ last_admit' =
                     Admission("connect", "admitted", peer_addr, peer_id, banned)
               /\ UNCHANGED soft_bans
          ELSE /\ soft_bans' = IF peer_type = Node
                               THEN MapInsert(soft_bans, BanId_Socket(peer_addr),
                                              clock + UNREACHABLE_EXPIRATION_SECS)
                               ELSE soft_bans
               /\ last_admit' =
                     Admission("connect", "unreachable", peer_addr, peer_id, banned)
               /\ UNCHANGED <<conn_candidates, next_token>>
       /\ UNCHANGED <<connections, hard_bans, admit_cfg>>
       /\ OutsideAdmit

\* P2PNode::ban_node
ban_node ==
    /\ Cardinality(hard_bans) < MaxBans
    /\ \E peer \in BanInputs : hard_bans' = hard_bans \cup {peer}
    /\ UNCHANGED <<varsConns, soft_bans, admit_cfg, last_admit>>
    /\ OutsideAdmit

AdmitNext ==
    \/ accept
    \/ connect
    \/ ban_node

\* P2PNode::remove_connection(token): a candidate with the token is removed,
\* otherwise an established connection with it
remove_connection ==
    /\ \E token \in 1 .. next_token :
          IF token \in DOMAIN conn_candidates
          THEN /\ conn_candidates' = MapRemove(conn_candidates, token)
               /\ UNCHANGED connections
          ELSE IF token \in DOMAIN connections
          THEN /\ connections' = MapRemove(connections, token)
               /\ UNCHANGED conn_candidates
          ELSE UNCHANGED <<connections, conn_candidates>>
    /\ UNCHANGED <<next_token, varsAdmit>>
    /\ OutsideAdmit

\* accept and connect while the counter of the tokens is within the bound
accept_token == next_token <= MaxTokens /\ accept

connect_token == next_token <= MaxTokens /\ connect

\* the handshake of a candidate arrives and is processed
handshake_arrives ==
    /\ recvs < MaxRecv
    /\ \E token \in DOMAIN conn_candidates :
          ReadStream(token, Request("HandshakeRequest"))
    /\ recvs' = recvs + 1
    /\ UNCHANGED <<recv_cfg, flooded>>
    /\ OutsideRecv

\* the life of the connections: admitted, promoted, removed
TokensNext ==
    \/ accept_token
    \/ connect_token
    \/ handshake_arrives
    \/ remove_connection

(***************************************************************************)
(* Sending: async_send and the drain of the two channels.                  *)
(***************************************************************************)
\* MessageSendingPriority
High == "High"
Normal == "Normal"

\* NetworkRawRequest
NetworkRawRequest(token, data) == [token |-> token, data |-> data]

\* async_send that puts a request at the front of its channel
async_send_to_front(hi, lo, token, input, priority) ==
    IF priority = High
    THEN [hi |-> <<NetworkRawRequest(token, input)>> \o hi, lo |-> lo]
    ELSE [hi |-> hi, lo |-> <<NetworkRawRequest(token, input)>> \o lo]

\* async_send with the priority ignored
async_send_all_normal(hi, lo, token, input, priority) ==
    [hi |-> hi, lo |-> Append(lo, NetworkRawRequest(token, input))]

\* Connection::async_send: the two channels afterwards
async_send(hi, lo, token, input, priority) ==
    IF priority = High
    THEN [hi |-> Append(hi, NetworkRawRequest(token, input)), lo |-> lo]
    ELSE [hi |-> hi, lo |-> Append(lo, NetworkRawRequest(token, input))]

\* the data of the requests of a connection waiting in a channel
PendingOf(channel, token) ==
    {channel[i].data : i \in {j \in 1 .. Len(channel) : channel[j].token = token}}

\* an async_send: its request, its priority, and the normal-priority
\* requests of the same connection that were pending when it was made
Queued(request, priority, pending_lo) ==
    [request |-> request, priority |-> priority, pending_lo |-> pending_lo]

\* two established connections
SendConnsInit ==
    /\ conn_candidates = NoConns
    /\ connections =
          MapInsert(
              MapInsert(NoConns, 1, Connection(1, 1, Node, PeerIdOf(1), TRUE, {100})),
              2, Connection(2, 2, Node, PeerIdOf(2), TRUE, {100}))
    /\ next_token = 3

SendInit ==
    /\ network_messages_hi = << >>
    /\ network_messages_lo = << >>
    /\ written = << >>
    /\ queued = << >>

OutsideSend ==
    UNCHANGED <<varsBuckets, varsConns, varsRouter, varsRecv, varsAdmit,
                varsHouse, varsFrame, varsShake, varsBridge, varsLoop,
                varsTls, varsBoot, varsPromote, varsRace, varsNets,
                varsResend, varsStop, varsSkov>>

\* some connection queues a message; the k-th message of the run is byte k
AsyncSend ==
    /\ Len(queued) < MaxSends
    /\ \E token \in DOMAIN connections, priority \in {High, Normal} :
          LET input == Len(queued) + 1
              chans == async_send(network_messages_hi, network_messages_lo,
                                  token, input, priority)
          IN  /\ network_messages_hi' = chans.hi
              /\ network_messages_lo' = chans.lo
              /\ queued' = Append(queued,
                     Queued(NetworkRawRequest(token, input), priority,
                            PendingOf(network_messages_lo, token)))
    /\ UNCHANGED written
    /\ OutsideSend

\* the poll loop takes the next request, from the high-priority channel
\* while it has one, and writes it to the socket of its connection
process_network_requests ==
    /\ IF network_messages_hi # << >>
       THEN /\ written' = Append(written, Head(network_messages_hi))
            /\ network_messages_hi' = Tail(network_messages_hi)
            /\ UNCHANGED network_messages_lo
       ELSE /\ network_messages_lo # << >>
            /\ written' = Append(written, Head(network_messages_lo))
            /\ network_messages_lo' = Tail(network_messages_lo)
            /\ UNCHANGED network_messages_hi
    /\ UNCHANGED queued
    /\ OutsideSend

SendNext ==
    \/ AsyncSend
    \/ process_network_requests

(***************************************************************************)
(* Sending: the messages a connection sends of its own accord.  The data   *)
(* of a request is the kind of the serialized message.                     *)
(***************************************************************************)
\* a send_* of a connection: async_send of the serialized message
SendOwn(token, kind, priority) ==
    LET chans == async_send(network_messages_hi, network_messages_lo,
                            token, kind, priority)
    IN  /\ network_messages_hi' = chans.hi
        /\ network_messages_lo' = chans.lo
        /\ queued' = Append(queued,
               Queued(NetworkRawRequest(token, kind), priority,
                      PendingOf(network_messages_lo, token)))

\* send_peer_list_resp: the peers a node of type Node has to share, those
\* of type Node but the requestor
peer_list_nodes(conns, token) ==
    {conns[t].id : t \in get_peer_stats(conns, Node)} \ {conns[token].id}

\* Connection::send_ping
send_ping ==
    /\ Len(queued) < MaxSends
    /\ \E token \in DOMAIN connections : SendOwn(token, "Ping", High)
    /\ UNCHANGED written
    /\ OutsideSend

\* Connection::send_pong
send_pong ==
    /\ Len(queued) < MaxSends
    /\ \E token \in DOMAIN connections : SendOwn(token, "Pong", High)
    /\ UNCHANGED written
    /\ OutsideSend

\* Connection::send_handshake_response
send_handshake_response ==
    /\ Len(queued) < MaxSends
    /\ \E token \in DOMAIN connections :
          SendOwn(token, "HandshakeResponse", High)
    /\ UNCHANGED written
    /\ OutsideSend

\* Connection::send_peer_list_resp: a bootstrapper shares the random nodes
\* of its buckets when they are enough, a node its other peers of type Node
\* when it has any
send_peer_list_resp ==
    /\ Len(queued) < MaxSends
    /\ \E token \in DOMAIN connections, enough_random_nodes \in BOOLEAN :
          LET has_list == IF recv_cfg.self_peer_type = Bootstrapper
                          THEN enough_random_nodes
                          ELSE peer_list_nodes(connections, token) # {}
          IN  IF has_list
              THEN SendOwn(token, "PeerList", Normal)
              ELSE UNCHANGED <<network_messages_hi, network_messages_lo, queued>>
    /\ UNCHANGED written
    /\ OutsideSend

RepliesNext ==
    \/ send_ping
    \/ send_pong
    \/ send_handshake_response
    \/ send_peer_list_resp
    \/ process_network_requests

(***************************************************************************)
(* Housekeeping of the connections.                                        *)
(***************************************************************************)
\* ConnectionStats: created, last_seen, and the last measured latency
ConnectionStats(created, last_seen, last_latency) ==
    [created |-> created, last_seen |-> last_seen, last_latency |-> last_latency]

\* config.max_latency: Option<u64>
NoMaxLatency == [is_some |-> FALSE, value |-> 0]
SomeMaxLatency(value) == [is_some |-> TRUE, value |-> value]

\* Connection::update_last_seen
update_last_seen(st, peer_type, now) ==
    IF peer_type # Bootstrapper THEN [st EXCEPT !.last_seen = now] ELSE st

\* connection_housekeeping: is_conn_faulty
is_conn_faulty(st, max_latency) ==
    IF max_latency.is_some THEN st.last_latency >= max_latency.value ELSE FALSE

\* is_conn_inactive that finds every connection active
is_conn_inactive_never(st, peer_type, curr_stamp) == FALSE

\* connection_housekeeping: is_conn_inactive
is_conn_inactive(st, peer_type, curr_stamp) ==
    \/ peer_type = Node /\ st.last_seen + MAX_NORMAL_KEEP_ALIVE < curr_stamp
    \/ peer_type = Bootstrapper
          /\ st.created + MAX_BOOTSTRAPPER_KEEP_ALIVE < curr_stamp

\* connection_housekeeping: is_conn_without_handshake
is_conn_without_handshake(st, curr_stamp) ==
    st.created + MAX_PREHANDSHAKE_KEEP_ALIVE < curr_stamp

\* a retain that keeps a soft ban at the time of its expiry
soft_ban_retained_at_expiry(expiry, now) == expiry >= now

\* connection_housekeeping: soft_bans.retain(|_, expiry| *expiry > now)
soft_ban_retained(expiry, now) == expiry > now

\* map.retain(|token, _| keep contains token)
MapRetain(map, keep) == [t \in (DOMAIN map) \cap keep |-> map[t]]

\* what a connection_housekeeping did: its curr_stamp, the established
\* connections it found inactive, the ones it dropped for being too many
Housekept(ran, curr_stamp, inactive, to_drop) ==
    [ran |-> ran, curr_stamp |-> curr_stamp, inactive |-> inactive,
     to_drop |-> to_drop]

HouseCfgInputs ==
    { [peer_type |-> Node, max_latency |-> NoMaxLatency],
      [peer_type |-> Node, max_latency |-> SomeMaxLatency(5)],
      [peer_type |-> Bootstrapper, max_latency |-> NoMaxLatency] }

\* three established peers, the second a slow one and the third a node or
\* a bootstrapper the node has dialled, and one candidate
HouseConnsInit ==
    /\ conn_candidates =
          MapInsert(NoConns, 4, Connection(4, 4, Node, NoId, FALSE, {}))
    /\ \E third \in {Node, Bootstrapper} :
          connections =
             [t \in 1 .. 3 |->
                 Connection(t, t, IF t = 3 THEN third ELSE Node, PeerIdOf(t),
                            TRUE, {100})]
    /\ next_token = 5

HouseInit ==
    /\ clock = 0
    /\ stats = [t \in 1 .. 4 |-> ConnectionStats(0, 0, IF t = 2 THEN 5 ELSE 0)]
    /\ house_cfg \in HouseCfgInputs
    /\ housekept = Housekept(FALSE, 0, {}, {})

\* a node whose clock stands still and that keeps no statistics
HouseIdle ==
    /\ clock = 0
    /\ stats = [t \in {} |-> ConnectionStats(0, 0, 0)]
    /\ house_cfg = [peer_type |-> Node, max_latency |-> NoMaxLatency]
    /\ housekept = Housekept(FALSE, 0, {}, {})

OutsideHouse ==
    UNCHANGED <<varsBuckets, varsRouter, varsRecv, varsSend, next_token,
                hard_bans, admit_cfg, last_admit, varsFrame, varsShake,
                varsBridge, varsLoop, varsTls, varsBoot, varsPromote,
                varsRace, varsNets, varsResend, varsStop, varsSkov>>

\* time passes
Tick ==
    /\ clock < MaxClock
    /\ clock' = clock + 1
    /\ UNCHANGED <<connections, conn_candidates, soft_bans, stats, house_cfg,
                   housekept>>
    /\ OutsideHouse

\* a message arrives on a connection: process_message begins with
\* update_last_seen
MessageSeen ==
    /\ \E token \in DOMAIN AllConns :
          stats' = [stats EXCEPT
                       ![token] = update_last_seen(@, house_cfg.peer_type, clock)]
    /\ UNCHANGED <<connections, conn_candidates, soft_bans, clock, house_cfg,
                   housekept>>
    /\ OutsideHouse

\* connectivity.rs connection_housekeeping
connection_housekeeping ==
    LET curr_stamp == clock
        peer_type == house_cfg.peer_type
        candidates_kept ==
            {t \in DOMAIN conn_candidates :
                ~is_conn_without_handshake(stats[t], curr_stamp)}
        inactive ==
            {t \in DOMAIN connections :
                is_conn_inactive(stats[t], peer_type, curr_stamp)}
        faulty ==
            {t \in DOMAIN connections :
                is_conn_faulty(stats[t], house_cfg.max_latency)}
        retained == MapRetain(connections, (DOMAIN connections) \ (faulty \cup inactive))
        peer_count == Cardinality(get_peer_stats(retained, Node))
        drops ==
            IF peer_type = Node /\ peer_count > admit_cfg.max_allowed_nodes
            THEN choose_multiple(DOMAIN retained,
                                 peer_count - admit_cfg.max_allowed_nodes)
            ELSE {{}}
    IN
    /\ conn_candidates' = MapRetain(conn_candidates, candidates_kept)
    /\ \E to_drop \in drops :
          /\ connections' = MapRetain(retained, (DOMAIN retained) \ to_drop)
          /\ stats' = MapRetain(stats,
                          candidates_kept \cup ((DOMAIN retained) \ to_drop))
          /\ housekept' = Housekept(TRUE, curr_stamp, inactive, to_drop)
    /\ soft_bans' = MapRetain(soft_bans,
                        {b \in DOMAIN soft_bans :
                            soft_ban_retained(soft_bans[b], clock)})
    /\ UNCHANGED <<clock, house_cfg>>
    /\ OutsideHouse

HouseNext ==
    \/ Tick
    \/ MessageSeen
    \/ connection_housekeeping

\* connect for the dials that yield no connection: the dial is refused, or
\* TcpStream::connect fails and a Node address is soft-banned.  Bans are
\* set while their expiry is a time the clock can reach.
connect_without_connection ==
    /\ clock + UNREACHABLE_EXPIRATION_SECS <= MaxClock
    /\ connect
    /\ last_admit'.outcome # "admitted"

\* the soft bans of a node: failed dials, time, and housekeeping
BansNext ==
    \/ connect_without_connection
    \/ Tick
    \/ connection_housekeeping

(***************************************************************************)
(* Framing of inbound plaintext (p2p.rs Connection).                       *)
(*                                                                         *)
(* A frame is a 4-byte big-endian length followed by that many bytes.  The *)
(* frames of the model are shorter than the 132 bytes validate_packet      *)
(* waits for, so pkt_validated stays false and every completed frame is    *)
(* handed to process_complete_packet.                                      *)
(***************************************************************************)
\* the limit incoming_plaintext compares a length with
PACKET_SIZE_LIMIT == 268435456

\* the bytes frames are filled with
PayloadBytes == {0, 1}

\* write_u32::<NetworkEndian>
write_u32(n) ==
    <<n \div (256 * 256 * 256), (n \div (256 * 256)) % 256, (n \div 256) % 256,
      n % 256>>

\* read_u32::<NetworkEndian>
read_u32(b) == ((b[1] * 256 + b[2]) * 256 + b[3]) * 256 + b[4]

\* a frame on the wire
serialize_frame(payload) == write_u32(Len(payload)) \o payload

RECURSIVE serialize_frames(_)
serialize_frames(frames) ==
    IF frames = << >> THEN << >>
    ELSE serialize_frame(Head(frames)) \o serialize_frames(Tail(frames))

\* buf[from..to], counting from 0 as the source does
Slice(buf, from, to) == SubSeq(buf, from + 1, to)

\* Option<BytesMut>
NoBuffer == [is_some |-> FALSE, bytes |-> << >>]

SomeBuffer(bytes) == [is_some |-> TRUE, bytes |-> bytes]

\* rejected_at: the number of frames handed over when a length above the
\* limit was first read, -1 while none was
Framer(expected_size, currently_read, pkt_buffer, delivered, rejected_at) ==
    [expected_size |-> expected_size, currently_read |-> currently_read,
     pkt_buffer |-> pkt_buffer, delivered |-> delivered,
     rejected_at |-> rejected_at]

append_buffer(c, new_data) ==
    IF c.pkt_buffer.is_some
    THEN [c EXCEPT !.pkt_buffer = SomeBuffer(@.bytes \o new_data),
                   !.currently_read = @ + Len(new_data)]
    ELSE c

clear_buffer(c) ==
    [c EXCEPT !.currently_read = 0, !.expected_size = 0, !.pkt_buffer = NoBuffer]

setup_buffer(c) == [c EXCEPT !.pkt_buffer = SomeBuffer(<< >>)]

\* the call of process_complete_packet with the buffered bytes
complete_packet(c) ==
    LET buffered == IF c.pkt_buffer.is_some THEN c.pkt_buffer.bytes ELSE << >>
    IN [c EXCEPT !.delivered = Append(@, buffered)]

\* Connection::incoming_plaintext
RECURSIVE incoming_plaintext(_, _)
incoming_plaintext(c, buf) ==
    IF c.expected_size > 0 /\ c.currently_read = c.expected_size
    THEN incoming_plaintext(clear_buffer(complete_packet(c)), buf)
    ELSE IF c.expected_size > 0 /\ Len(buf) <= c.expected_size - c.currently_read
    THEN LET a == append_buffer(c, buf) IN
         IF a.expected_size = a.currently_read
         THEN clear_buffer(complete_packet(a))
         ELSE a
    ELSE IF c.expected_size > 0 /\ Len(buf) > c.expected_size - c.currently_read
    THEN LET to_take == c.expected_size - c.currently_read
             a == append_buffer(c, Slice(buf, 0, to_take))
         IN incoming_plaintext(clear_buffer(complete_packet(a)),
                               Slice(buf, to_take, Len(buf)))
    ELSE IF Len(buf) >= 4
    THEN LET size == read_u32(Slice(buf, 0, 4)) IN
         IF size > PACKET_SIZE_LIMIT
         THEN incoming_plaintext(
                  [c EXCEPT !.expected_size = 0,
                            !.rejected_at = IF @ < 0 THEN Len(c.delivered) ELSE @],
                  Slice(buf, 4, Len(buf)))
         ELSE LET s == setup_buffer([c EXCEPT !.expected_size = size]) IN
              IF Len(buf) > 4
              THEN incoming_plaintext(s, Slice(buf, 4, Len(buf)))
              ELSE s
    ELSE c

(***************************************************************************)
(* The inputs of the framing model.                                        *)
(***************************************************************************)
\* the frames a peer sends: one to MaxPayload bytes each
FrameInputs == UNION {[1 .. n -> PayloadBytes] : n \in 1 .. MaxPayload}

\* up to MaxFrames frames
FramesInputs == UNION {[1 .. n -> FrameInputs] : n \in 0 .. MaxFrames}

\* what a peer may put in front of its frames: nothing, or a length above the
\* limit
PrefixInputs == {<< >>, write_u32(PACKET_SIZE_LIMIT + 1)}

\* a new connection: nothing read, no buffer
FrameIdle ==
    /\ stream = << >>
    /\ frames_in = << >>
    /\ pos = 0
    /\ framer = Framer(0, 0, NoBuffer, << >>, -1)
    /\ closing = FALSE

FrameInit ==
    /\ frames_in \in FramesInputs
    /\ \E prefix \in PrefixInputs : stream = prefix \o serialize_frames(frames_in)
    /\ pos = 0
    /\ framer = Framer(0, 0, NoBuffer, << >>, -1)
    /\ closing = FALSE

OutsideFrame ==
    UNCHANGED <<varsBuckets, varsConns, varsRouter, varsRecv, varsAdmit,
                varsSend, varsHouse, varsShake, varsBridge, varsLoop,
                varsTls, varsBoot, varsPromote, varsRace, varsNets,
                varsResend, varsStop, varsSkov>>

\* Connection::ready for a readable socket: try_plain_read gives the bytes
\* that have arrived, any number of the bytes not yet read, to
\* incoming_plaintext
try_plain_read ==
    /\ ~closing
    /\ \E n \in 1 .. (Len(stream) - pos) :
          /\ framer' = incoming_plaintext(framer, Slice(stream, pos, pos + n))
          /\ pos' = pos + n
    /\ UNCHANGED <<stream, frames_in, closing>>
    /\ OutsideFrame

\* Connection::ready for a readable socket whose peer has closed it:
\* do_tls_read reads 0 bytes and marks the connection as closing
do_tls_read_eof ==
    /\ ~closing
    /\ closing' = TRUE
    /\ UNCHANGED <<stream, frames_in, pos, framer>>
    /\ OutsideFrame

FrameNext ==
    \/ try_plain_read
    \/ do_tls_read_eof

(***************************************************************************)
(* Handshake requests (p2p.rs Connection::process_complete_packet).        *)
(***************************************************************************)
NormalMode == "NormalMode"
NormalPrivateMode == "NormalPrivateMode"

\* sender.ip().is_global() && !is_multicast() && !is_documentation():
\* the addresses from 100 on stand for such ips
ip_is_public(addr) == addr >= 100

\* Connection::add_networks
add_networks(networks, nets) == networks \cup {nets[i] : i \in 1 .. Len(nets)}

\* the ids of the peers of the connections that have a peer, but for one
\* connection
ConnectedIds(conns, but) ==
    {conns[t].id : t \in {u \in DOMAIN conns : u # but /\ conns[u].is_post_handshake}}

Handshake(ran, token, sender, connected) ==
    [ran |-> ran, token |-> token, sender |-> sender, connected |-> connected]

NoHandshake == Handshake(FALSE, 0, NoPeer, {})

\* the senders named in the Handshake requests: the node's own id, a first
\* peer, the first peer's id at another address, a second peer, and a peer
\* with an address that is not public
SenderInputs ==
    { P2PPeer(OwnId, 110, 1),
      P2PPeer(2^5, 100, 1),
      P2PPeer(2^5, 101, 2),
      P2PPeer((2^5) + 1, 102, 1),
      P2PPeer((2^5) + 2, 10, 1) }

ModeInputs == {NormalMode, NormalPrivateMode}

\* two connections of the TlsServer whose peers are not known yet
ShakeConnsInit ==
    /\ connections = [t \in 1 .. 2 |-> Connection(t, t, Node, NoId, FALSE, {})]
    /\ conn_candidates = NoConns
    /\ next_token = 3

ShakeIdle ==
    /\ mode = NormalMode
    /\ closing_tokens = {}
    /\ last_handshake = NoHandshake
    /\ shakes = 0

ShakeInit ==
    /\ mode \in ModeInputs
    /\ closing_tokens = {}
    /\ last_handshake = NoHandshake
    /\ shakes = 0

OutsideShake ==
    UNCHANGED <<filled, updated, ops, conn_candidates, next_token,
                varsRouter, varsRecv, varsAdmit, varsSend, varsHouse,
                varsFrame, varsBridge, varsLoop, varsTls, varsBoot,
                varsPromote, varsRace, varsNets, varsResend, varsStop,
                varsSkov>>

\* process_complete_packet for a NetworkRequest::Handshake: the sender
\* becomes the connection's peer and is inserted into the buckets
process_complete_packet ==
    /\ shakes < MaxShakes
    /\ \E token \in (DOMAIN connections) \ closing_tokens,
          sender \in SenderInputs, nets \in NidsInputs :
          LET conn == connections[token] IN
          /\ connections' =
                MapInsert(connections, token,
                    [conn EXCEPT !.remote_end_networks = add_networks(@, nets),
                                 !.id = sender.id,
                                 !.is_post_handshake = TRUE])
          /\ buckets' =
                IF mode = NormalPrivateMode \/ ip_is_public(sender.addr)
                THEN insert_into_bucket(buckets, sender, OwnId, nets)
                ELSE buckets
          /\ bk_op' = BkOp("insert", sender)
          /\ last_handshake' =
                Handshake(TRUE, token, sender, ConnectedIds(connections, token))
    /\ bk_pre' = buckets
    /\ shakes' = shakes + 1
    /\ UNCHANGED <<mode, closing_tokens>>
    /\ OutsideShake

\* Connection::ready for a readable socket whose peer has closed it:
\* do_tls_read reads 0 bytes and marks the connection as closing
PeerCloses ==
    /\ \E token \in (DOMAIN connections) \ closing_tokens :
          closing_tokens' = closing_tokens \cup {token}
    /\ UNCHANGED <<varsBuckets, varsConns, mode, last_handshake, shakes>>
    /\ OutsideShake

ShakeNext ==
    \/ process_complete_packet
    \/ PeerCloses

(***************************************************************************)
(* The consensus bridge (bin/cli.rs start_global_state_thread).            *)
(*                                                                         *)
(* The thread and the senders of the four queues run concurrently: each    *)
(* step of the thread is one try_iter().next() or one try_recv().          *)
(* update_peer_list and check_peer_states at the top of the loop do not    *)
(* touch the queues.                                                       *)
(***************************************************************************)
QueueNames == {"in_hi", "out_hi", "in_lo", "out_lo"}

\* QueueMsg::Relay(msg) with msg.variant, QueueMsg::Stop
QueueMsg_Relay(variant) == [tag |-> "Relay", variant |-> variant]

QueueMsg_Stop == [tag |-> "Stop", variant |-> "none"]

\* u64::saturating_sub
saturating_sub(a, b) == IF a >= b THEN a - b ELSE 0

\* a match that gives the larger batches to the shorter intervals
queue_take_amount_growing(loop_interval) ==
    IF loop_interval >= 176 /\ loop_interval <= 200 THEN 243
    ELSE IF loop_interval >= 151 /\ loop_interval <= 175 THEN 324
    ELSE IF loop_interval >= 126 /\ loop_interval <= 150 THEN 432
    ELSE IF loop_interval >= 101 /\ loop_interval <= 125 THEN 576
    ELSE IF loop_interval >= 76 /\ loop_interval <= 100 THEN 768
    ELSE IF loop_interval >= 51 /\ loop_interval <= 75 THEN 1024
    ELSE IF loop_interval >= 26 /\ loop_interval <= 50 THEN 1536
    ELSE 2048

\* the match on loop_interval_in / loop_interval_out
queue_take_amount(loop_interval) ==
    IF loop_interval >= 176 /\ loop_interval <= 200 THEN 2048
    ELSE IF loop_interval >= 151 /\ loop_interval <= 175 THEN 1536
    ELSE IF loop_interval >= 126 /\ loop_interval <= 150 THEN 1024
    ELSE IF loop_interval >= 101 /\ loop_interval <= 125 THEN 768
    ELSE IF loop_interval >= 76 /\ loop_interval <= 100 THEN 576
    ELSE IF loop_interval >= 51 /\ loop_interval <= 75 THEN 432
    ELSE IF loop_interval >= 26 /\ loop_interval <= 50 THEN 324
    ELSE 243

\* what a handled message takes off the loop interval
interval_step(variant) == IF variant = "Block" THEN 5 ELSE 1

\* the variant of the messages of a queue: blocks on the hi queues,
\* transactions on the lo queues
VariantOf(q) == IF q \in {"in_hi", "out_hi"} THEN "Block" ELSE "Transaction"

BridgeIdle ==
    /\ callback_queue = [q \in QueueNames |-> << >>]
    /\ bridge_pc = "wait"
    /\ loop_interval_in = 200
    /\ loop_interval_out = 200
    /\ lo_taken = 0
    /\ relays = 0
    /\ stop_sent = FALSE

\* a load: n high-priority messages of a variant, and lo low-priority ones
Load(n, variant, lo) == [n |-> n, variant |-> variant, lo |-> lo]

\* the loads of a direction when the thread starts: the blocks bring the
\* interval to each arm of the match, and one more low-priority message
\* waits than the batch of that arm takes
LoadInputs ==
    { Load(0, "Block", 2049), Load(5, "Block", 1537), Load(10, "Block", 1025),
      Load(15, "Block", 769), Load(20, "Block", 577), Load(25, "Block", 433),
      Load(30, "Block", 325), Load(35, "Block", 244), Load(41, "Block", 244),
      Load(41, "FinalizationMessage", 244) }

\* a queue of n messages of one variant
RelaysOf(n, variant) == [i \in 1 .. n |-> QueueMsg_Relay(variant)]

\* queues filled before the thread starts: one direction carries a load,
\* the other a single low-priority message
BatchInit ==
    /\ \E load \in LoadInputs, dir \in {"in", "out"} :
          /\ dir = "out" => load \in {Load(0, "Block", 2049), Load(41, "Block", 244)}
          /\ callback_queue =
                [q \in QueueNames |->
                    IF q = dir \o "_hi" THEN RelaysOf(load.n, load.variant)
                    ELSE IF q = dir \o "_lo" THEN RelaysOf(load.lo, "Transaction")
                    ELSE IF q \in {"in_lo", "out_lo"} THEN RelaysOf(1, "Transaction")
                    ELSE << >>]
    /\ bridge_pc = "wait"
    /\ loop_interval_in = 200
    /\ loop_interval_out = 200
    /\ lo_taken = 0
    /\ relays = 0
    /\ stop_sent = FALSE

OutsideBridge ==
    UNCHANGED <<varsBuckets, varsConns, varsRouter, varsRecv, varsAdmit,
                varsSend, varsHouse, varsFrame, varsShake, varsLoop, varsTls,
                varsBoot, varsPromote, varsRace, varsNets, varsResend,
                varsStop, varsSkov>>

\* the thread waits until the number of peers is within the desired range
bridge_wait ==
    /\ bridge_pc = "wait"
    /\ bridge_pc' =
          IF Cardinality(get_node_peer_ids(connections)) > admit_cfg.max_allowed_nodes
          THEN "wait" ELSE "in_hi"
    /\ UNCHANGED <<callback_queue, loop_interval_in, loop_interval_out, lo_taken,
                   relays, stop_sent>>
    /\ OutsideBridge

\* one step of `for message in consensus_receiver_in_hi.try_iter()`
drain_in_hi ==
    /\ bridge_pc = "in_hi"
    /\ LET queue == callback_queue["in_hi"] IN
       IF queue = << >>
       THEN /\ bridge_pc' = "out_hi"
            /\ UNCHANGED <<callback_queue, loop_interval_in>>
       ELSE /\ callback_queue' = [callback_queue EXCEPT !["in_hi"] = Tail(queue)]
            /\ IF Head(queue).tag = "Stop"
               THEN bridge_pc' = "done" /\ UNCHANGED loop_interval_in
               ELSE /\ bridge_pc' = "in_hi"
                    /\ \E handled_ok \in BOOLEAN :
                          loop_interval_in' =
                             IF handled_ok
                             THEN saturating_sub(loop_interval_in,
                                                 interval_step(Head(queue).variant))
                             ELSE loop_interval_in
    /\ UNCHANGED <<loop_interval_out, lo_taken, relays, stop_sent>>
    /\ OutsideBridge

\* one step of `for message in consensus_receiver_out_hi.try_iter()`
drain_out_hi ==
    /\ bridge_pc = "out_hi"
    /\ LET queue == callback_queue["out_hi"] IN
       IF queue = << >>
       THEN /\ bridge_pc' = "in_lo"
            /\ UNCHANGED <<callback_queue, loop_interval_out>>
       ELSE /\ callback_queue' = [callback_queue EXCEPT !["out_hi"] = Tail(queue)]
            /\ IF Head(queue).tag = "Stop"
               THEN bridge_pc' = "done" /\ UNCHANGED loop_interval_out
               ELSE /\ bridge_pc' = "out_hi"
                    /\ \E handled_ok \in BOOLEAN :
                          loop_interval_out' =
                             IF handled_ok
                             THEN saturating_sub(loop_interval_out,
                                                 interval_step(Head(queue).variant))
                             ELSE loop_interval_out
    /\ lo_taken' = 0
    /\ UNCHANGED <<loop_interval_in, relays, stop_sent>>
    /\ OutsideBridge

\* one iteration of `for _ in 0..queue_take_amount_inbound` with its try_recv
take_in_lo ==
    /\ bridge_pc = "in_lo"
    /\ LET queue == callback_queue["in_lo"] IN
       IF lo_taken < queue_take_amount(loop_interval_in) /\ queue # << >>
       THEN /\ callback_queue' = [callback_queue EXCEPT !["in_lo"] = Tail(queue)]
            /\ bridge_pc' = IF Head(queue).tag = "Stop" THEN "done" ELSE "in_lo"
            /\ lo_taken' = lo_taken + 1
       ELSE /\ bridge_pc' = "out_lo"
            /\ lo_taken' = 0
            /\ UNCHANGED callback_queue
    /\ UNCHANGED <<loop_interval_in, loop_interval_out, relays, stop_sent>>
    /\ OutsideBridge

\* one iteration of `for _ in 0..queue_take_amount_outbound` with its try_recv
take_out_lo ==
    /\ bridge_pc = "out_lo"
    /\ LET queue == callback_queue["out_lo"] IN
       IF lo_taken < queue_take_amount(loop_interval_out) /\ queue # << >>
       THEN /\ callback_queue' = [callback_queue EXCEPT !["out_lo"] = Tail(queue)]
            /\ bridge_pc' = IF Head(queue).tag = "Stop" THEN "done" ELSE "out_lo"
            /\ lo_taken' = lo_taken + 1
       ELSE /\ bridge_pc' = "sleep"
            /\ lo_taken' = 0
            /\ UNCHANGED callback_queue
    /\ UNCHANGED <<loop_interval_in, loop_interval_out, relays, stop_sent>>
    /\ OutsideBridge

\* the sleep at the end of an iteration and the top of the next one
bridge_sleep ==
    /\ bridge_pc = "sleep"
    /\ bridge_pc' = "in_hi"
    /\ loop_interval_in' = 200
    /\ loop_interval_out' = 200
    /\ UNCHANGED <<callback_queue, lo_taken, relays, stop_sent>>
    /\ OutsideBridge

\* the steps of the global state thread
BridgeThread ==
    \/ bridge_wait
    \/ drain_in_hi
    \/ drain_out_hi
    \/ take_in_lo
    \/ take_out_lo
    \/ bridge_sleep

\* a block arrives from the network for consensus
send_in_hi ==
    /\ Len(callback_queue["in_hi"]) < MaxQueue
    /\ callback_queue' =
          [callback_queue EXCEPT !["in_hi"] = Append(@, QueueMsg_Relay(VariantOf("in_hi")))]
    /\ UNCHANGED <<bridge_pc, loop_interval_in, loop_interval_out, lo_taken,
                   relays, stop_sent>>
    /\ OutsideBridge

\* a message is sent to one of the other queues
send_other ==
    /\ relays < MaxRelays
    /\ \E q \in QueueNames \ {"in_hi"} :
          /\ Len(callback_queue[q]) < MaxQueue
          /\ callback_queue' =
                [callback_queue EXCEPT ![q] = Append(@, QueueMsg_Relay(VariantOf(q)))]
    /\ relays' = relays + 1
    /\ UNCHANGED <<bridge_pc, loop_interval_in, loop_interval_out, lo_taken,
                   stop_sent>>
    /\ OutsideBridge

\* a Stop is sent to one of the queues
send_stop ==
    /\ ~stop_sent
    /\ \E q \in QueueNames :
          /\ Len(callback_queue[q]) < MaxQueue
          /\ callback_queue' = [callback_queue EXCEPT ![q] = Append(@, QueueMsg_Stop)]
    /\ stop_sent' = TRUE
    /\ UNCHANGED <<bridge_pc, loop_interval_in, loop_interval_out, lo_taken, relays>>
    /\ OutsideBridge

BridgeNext ==
    \/ BridgeThread
    \/ send_in_hi
    \/ send_other
    \/ send_stop

(***************************************************************************)
(* The event loop of a P2PNode (p2p_node.rs spawn, close, join).           *)
(*                                                                         *)
(* process polls with a timeout of one second, so every step of the loop   *)
(* ends.  join is the join of a thread other than the spawned one.         *)
(***************************************************************************)
\* a call of join(): who called, whether P2PNodeThread.join_handle was Some,
\* and what the call did
Join(by, handle, outcome) == [by |-> by, handle |-> handle, outcome |-> outcome]

NoJoin == Join("none", FALSE, "none")

\* P2PNode::join up to join_handle.join(): id_some is thread.id being Some,
\* is_event_thread is id == current_thread_id, handle is join_handle being Some
join_outcome(id_some, is_event_thread, handle) ==
    IF id_some
    THEN IF ~is_event_thread
         THEN IF handle THEN "wait" ELSE "already joined"
         ELSE "inside event thread"
    ELSE "missing id"

LoopIdle ==
    /\ quit_tx = FALSE
    /\ quit_rx = << >>
    /\ loop_pc = "none"
    /\ join_handle = FALSE
    /\ joiner = "idle"
    /\ closes = 0
    /\ close_called = FALSE
    /\ passed_after = 0
    /\ event_join = "none"
    /\ joiner2 = "idle"
    /\ last_join = NoJoin

OutsideLoop ==
    UNCHANGED <<varsBuckets, varsConns, varsRouter, varsRecv, varsAdmit,
                varsSend, varsHouse, varsFrame, varsShake, varsBridge,
                varsTls, varsBoot, varsPromote, varsRace, varsNets,
                varsResend, varsStop, varsSkov>>

\* P2PNode::spawn
spawn ==
    /\ loop_pc = "none"
    /\ quit_tx' = TRUE
    /\ quit_rx' = << >>
    /\ loop_pc' = "process"
    /\ join_handle' = TRUE
    /\ UNCHANGED <<joiner, closes, close_called, passed_after>>
    /\ UNCHANGED varsJoin
    /\ OutsideLoop

\* the loop of the spawned thread: self_clone.process(&mut events)
loop_process ==
    /\ loop_pc = "process"
    /\ loop_pc' = "network_requests"
    /\ UNCHANGED <<quit_tx, quit_rx, join_handle, joiner, closes, close_called,
                   passed_after>>
    /\ UNCHANGED varsJoin
    /\ OutsideLoop

\* process_network_requests(..)
loop_network_requests ==
    /\ loop_pc = "network_requests"
    /\ loop_pc' = "check"
    /\ UNCHANGED <<quit_tx, quit_rx, join_handle, joiner, closes, close_called,
                   passed_after>>
    /\ UNCHANGED varsJoin
    /\ OutsideLoop

\* a termination check that never leaves the loop
loop_check_ignoring ==
    /\ loop_pc = "check"
    /\ loop_pc' = "periodic"
    /\ passed_after' = IF close_called THEN passed_after + 1 ELSE passed_after
    /\ UNCHANGED <<quit_tx, quit_rx, join_handle, joiner, closes, close_called>>
    /\ UNCHANGED varsJoin
    /\ OutsideLoop

\* if rx.try_recv().is_ok() { break; }
loop_check ==
    /\ loop_pc = "check"
    /\ IF quit_rx # << >>
       THEN /\ quit_rx' = Tail(quit_rx)
            /\ loop_pc' = "drop"
            /\ UNCHANGED passed_after
       ELSE /\ loop_pc' = "periodic"
            /\ passed_after' = IF close_called THEN passed_after + 1
                               ELSE passed_after
            /\ UNCHANGED quit_rx
    /\ UNCHANGED <<quit_tx, join_handle, joiner, closes, close_called>>
    /\ UNCHANGED varsJoin
    /\ OutsideLoop

\* the periodic tasks, and back to the top of the loop
loop_periodic ==
    /\ loop_pc = "periodic"
    /\ loop_pc' = "process"
    /\ UNCHANGED <<quit_tx, quit_rx, join_handle, joiner, closes, close_called,
                   passed_after>>
    /\ UNCHANGED varsJoin
    /\ OutsideLoop

\* a drop whose join() does not look at the thread it is called from
drop_self_clone_joining_itself ==
    /\ loop_pc = "drop"
    /\ LET o == join_outcome(TRUE, FALSE, join_handle) IN
        /\ last_join' = Join("event", join_handle, o)
        /\ event_join' = IF o = "wait" THEN "joining" ELSE "Err"
        /\ loop_pc' = IF o = "wait" THEN "stuck" ELSE "exited"
        /\ join_handle' = IF o = "wait" THEN FALSE ELSE join_handle
    /\ UNCHANGED <<quit_tx, quit_rx, joiner, joiner2, closes, close_called,
                   passed_after>>
    /\ OutsideLoop

\* the spawned thread ends: its closure drops self_clone, and Drop for
\* P2PNode calls close_and_join on it.  The clone was made before quit_tx
\* was set, so its close() sends nothing; its join() runs on the event thread
drop_self_clone ==
    /\ loop_pc = "drop"
    /\ LET o == join_outcome(TRUE, TRUE, join_handle) IN
        /\ last_join' = Join("event", join_handle, o)
        /\ event_join' = IF o = "wait" THEN "joining" ELSE "Err"
        /\ loop_pc' = IF o = "wait" THEN "stuck" ELSE "exited"
        /\ join_handle' = IF o = "wait" THEN FALSE ELSE join_handle
    /\ UNCHANGED <<quit_tx, quit_rx, joiner, joiner2, closes, close_called,
                   passed_after>>
    /\ OutsideLoop

\* the steps of the spawned thread
LoopThread ==
    \/ loop_process
    \/ loop_network_requests
    \/ loop_check
    \/ loop_periodic
    \/ drop_self_clone

\* P2PNode::close: sends on the termination channel when the node has one;
\* the send fails once the spawned thread has dropped the receiver
close ==
    /\ closes < MaxCloses
    /\ closes' = closes + 1
    /\ IF quit_tx /\ loop_pc # "exited"
       THEN /\ quit_rx' = Append(quit_rx, TRUE)
            /\ close_called' = TRUE
       ELSE UNCHANGED <<quit_rx, close_called>>
    /\ UNCHANGED <<quit_tx, loop_pc, join_handle, joiner, passed_after>>
    /\ UNCHANGED varsJoin
    /\ OutsideLoop

\* P2PNode::join up to join_handle.join(): without a thread id, or with the
\* handle taken already, it returns an error
join_begin ==
    /\ joiner \in {"idle", "Ok", "Err"}
    /\ IF loop_pc # "none" /\ join_handle
       THEN joiner' = "joining" /\ join_handle' = FALSE
       ELSE joiner' = "Err" /\ UNCHANGED join_handle
    /\ last_join' = Join("first", join_handle,
                         join_outcome(loop_pc # "none", FALSE, join_handle))
    /\ UNCHANGED <<quit_tx, quit_rx, loop_pc, closes, close_called, passed_after>>
    /\ UNCHANGED <<event_join, joiner2>>
    /\ OutsideLoop

\* join_handle.join() returns when the spawned thread has ended
join_end ==
    /\ joiner = "joining"
    /\ loop_pc = "exited"
    /\ joiner' = "Ok"
    /\ UNCHANGED <<quit_tx, quit_rx, loop_pc, join_handle, closes, close_called,
                   passed_after>>
    /\ UNCHANGED varsJoin
    /\ OutsideLoop

\* P2PNode::join called by a second thread, on a clone of the node
join2_begin ==
    /\ joiner2 \in {"idle", "Ok", "Err"}
    /\ LET o == join_outcome(loop_pc # "none", FALSE, join_handle) IN
        /\ last_join' = Join("second", join_handle, o)
        /\ joiner2' = IF o = "wait" THEN "joining" ELSE "Err"
        /\ join_handle' = IF o = "wait" THEN FALSE ELSE join_handle
    /\ UNCHANGED <<quit_tx, quit_rx, loop_pc, joiner, closes, close_called,
                   passed_after, event_join>>
    /\ OutsideLoop

\* its join_handle.join() returns when the spawned thread has ended
join2_end ==
    /\ joiner2 = "joining"
    /\ loop_pc = "exited"
    /\ joiner2' = "Ok"
    /\ UNCHANGED <<quit_tx, quit_rx, loop_pc, join_handle, joiner, closes,
                   close_called, passed_after, event_join, last_join>>
    /\ OutsideLoop

LoopNext ==
    \/ spawn
    \/ LoopThread
    \/ close
    \/ join_begin
    \/ join_end
    \/ join2_begin
    \/ join2_end

(***************************************************************************)
(* The TlsServer of p2p.rs: socket events, and the cleanup of connections  *)
(* that P2PNode::process runs after them.                                  *)
(***************************************************************************)
BootstrapperMode == "BootstrapperMode"
BootstrapperPrivateMode == "BootstrapperPrivateMode"

MAX_FAILED_PACKETS_ALLOWED == 50

\* self.mode == BootstrapperMode || self.mode == BootstrapperPrivateMode
is_bootstrapper_mode(m) == m \in {BootstrapperMode, BootstrapperPrivateMode}

\* a Connection of p2p.rs: peer is NoPeer until a handshake names it
TlsConnection(token, connection_type, peer, is_closing, failed_pkts, last_seen) ==
    [token |-> token, connection_type |-> connection_type, peer |-> peer,
     closing |-> is_closing, failed_pkts |-> failed_pkts, last_seen |-> last_seen]

\* what a readable socket delivers: a message, or the end of the stream
TlsMessage(kind, sender) == [kind |-> kind, sender |-> sender]

TlsPeerInputs == { P2PPeer(2^5, 100, 1), P2PPeer((2^5) + 1, 102, 1) }

TlsMessageInputs ==
    { TlsMessage("InvalidMessage", NoPeer), TlsMessage("eof", NoPeer) } \cup
    { TlsMessage(k, p) : k \in {"HandshakeRequest", "HandshakeResponse"},
                         p \in TlsPeerInputs }

IsHandshake(msg) == msg.kind \in {"HandshakeRequest", "HandshakeResponse"}

\* whether the buckets hold an entry with the peer's id
InBuckets(b, peer) ==
    \E i \in 0 .. (IdBits - 1) :
        \E k \in 1 .. Len(b[i]) : b[i][k].peer.id = peer.id

\* Connection::process_complete_packet, what it does to the connection: a
\* Handshake request or response sets the peer and the time last seen; a
\* message that does not parse counts as a failed packet
conn_process_complete_packet(conn, msg, now, m) ==
    IF IsHandshake(msg)
    THEN [conn EXCEPT !.peer = msg.sender, !.last_seen = now]
    ELSE [conn EXCEPT !.failed_pkts = @ + 1,
                      !.last_seen = IF is_bootstrapper_mode(m) THEN @ ELSE now]

\* Connection::process_complete_packet, what it does to the buckets
buckets_process_complete_packet(b, msg, m) ==
    IF msg.kind = "HandshakeRequest"
    THEN IF m \in {BootstrapperPrivateMode, NormalPrivateMode}
            \/ ip_is_public(msg.sender.addr)
         THEN insert_into_bucket(b, msg.sender, OwnId, <<100>>)
         ELSE b
    ELSE IF msg.kind = "HandshakeResponse"
    THEN insert_into_bucket(b, msg.sender, OwnId, <<100>>)
    ELSE b

\* do_tls_read and try_plain_read of Connection::ready: the end of the
\* stream marks the connection as closing, a message is processed
ready_read(conn, msg, now, m) ==
    IF msg.kind = "eof"
    THEN [conn EXCEPT !.closing = TRUE]
    ELSE conn_process_complete_packet(conn, msg, now, m)

\* the end of Connection::ready: self.closed = true when the connection is
\* closing and its TLS session does not want to read
ready_closed(conn, wants_read) == conn.closing /\ ~wants_read

TlsLast(fn, removed) == [fn |-> fn, removed |-> removed]

\* the peers of the connections with the tokens ts that have one
PeersOf(conns, ts) == {conns[t].peer : t \in {u \in ts : conns[u].peer # NoPeer}}

\* two connections accepted by the server at time 0, the first of which may
\* have received unparsable messages already
TlsInit ==
    /\ tls_mode \in {NormalMode, BootstrapperMode}
    /\ \E f \in {0, MAX_FAILED_PACKETS_ALLOWED - 1} :
          /\ tls_conns = [t \in 1 .. 2 |->
                TlsConnection(t, Node, NoPeer, FALSE, IF t = 1 THEN f ELSE 0, 0)]
          /\ invalid_count = [t \in 1 .. 2 |-> IF t = 1 THEN f ELSE 0]
    /\ peers_gauge = 0
    /\ banned_peers = {}
    /\ tls_now = 0
    /\ tls_last = TlsLast("none", {})
    /\ tls_events = 0

TlsIdle ==
    /\ tls_mode = NormalMode
    /\ tls_conns = [t \in {} |-> TlsConnection(t, Node, NoPeer, FALSE, 0, 0)]
    /\ invalid_count = [t \in {} |-> 0]
    /\ peers_gauge = 0
    /\ banned_peers = {}
    /\ tls_now = 0
    /\ tls_last = TlsLast("none", {})
    /\ tls_events = 0

OutsideTls ==
    UNCHANGED <<bk_pre, bk_op, filled, updated, ops, varsConns, varsRouter,
                varsRecv, varsAdmit, varsSend, varsHouse, varsFrame,
                varsShake, varsBridge, varsLoop, varsBoot, varsPromote,
                varsRace, varsNets, varsResend, varsStop, varsSkov>>

\* TlsServer::conn_event: the connection's ready() reads what the socket
\* has, and a connection that ready() left closed is removed from the map.
\* A closing connection is deregistered from the poll and gets no events.
conn_event ==
    /\ tls_events < MaxTlsEvents
    /\ \E token \in DOMAIN tls_conns, msg \in TlsMessageInputs :
       \E wants_read \in IF msg.kind = "eof" THEN BOOLEAN ELSE {TRUE} :
          LET conn == ready_read(tls_conns[token], msg, tls_now, tls_mode) IN
          /\ ~tls_conns[token].closing
          /\ tls_conns' =
                IF ready_closed(conn, wants_read)
                THEN MapRemove(tls_conns, token)
                ELSE MapInsert(tls_conns, token, conn)
          /\ peers_gauge' = IF IsHandshake(msg) THEN peers_gauge + 1
                            ELSE peers_gauge
          /\ buckets' = buckets_process_complete_packet(buckets, msg, tls_mode)
          /\ invalid_count' =
                IF msg.kind = "InvalidMessage"
                THEN [invalid_count EXCEPT ![token] = @ + 1]
                ELSE invalid_count
          /\ tls_last' =
                TlsLast("conn_event",
                        IF ready_closed(conn, wants_read)
                        THEN PeersOf(tls_conns, {token}) ELSE {})
    /\ tls_events' = tls_events + 1
    /\ UNCHANGED <<tls_mode, banned_peers, tls_now>>
    /\ OutsideTls

\* the connections cleanup_connections closes for their age or their
\* failed packets
cleanup_closes(conn, now, m) ==
    IF is_bootstrapper_mode(m)
    THEN conn.last_seen + 300000 < now
    ELSE \/ conn.last_seen + 1200000 < now /\ conn.connection_type = Node
         \/ conn.failed_pkts >= MAX_FAILED_PACKETS_ALLOWED

\* TlsServer::cleanup_connections: closes old connections and, in the normal
\* modes, those with too many failed packets; removes the closing ones,
\* counting down the peers for those that have a peer; closes the
\* connections of banned peers
cleanup_connections ==
    LET closed_ones ==
            {t \in DOMAIN tls_conns :
                tls_conns[t].closing \/ cleanup_closes(tls_conns[t], tls_now, tls_mode)}
        kept == (DOMAIN tls_conns) \ closed_ones
    IN  /\ tls_conns' =
            [t \in kept |->
                IF \E peer \in banned_peers :
                       tls_conns[t].peer # NoPeer /\ PeerEq(tls_conns[t].peer, peer)
                THEN [tls_conns[t] EXCEPT !.closing = TRUE]
                ELSE tls_conns[t]]
        /\ peers_gauge' = peers_gauge -
                Cardinality({t \in closed_ones : tls_conns[t].peer # NoPeer})
        /\ tls_last' = TlsLast("cleanup_connections", PeersOf(tls_conns, closed_ones))
        /\ UNCHANGED <<tls_mode, banned_peers, tls_now, invalid_count,
                       tls_events, buckets>>
        /\ OutsideTls

\* TlsServer::ban_node
tls_ban_node ==
    /\ Cardinality(banned_peers) < MaxBans
    /\ \E peer \in TlsPeerInputs : banned_peers' = banned_peers \cup {peer}
    /\ tls_last' = TlsLast("ban_node", {})
    /\ UNCHANGED <<tls_mode, tls_conns, peers_gauge, tls_now, invalid_count,
                   tls_events, buckets>>
    /\ OutsideTls

\* time passes
tls_tick ==
    /\ tls_now < MaxClock * 700000
    /\ tls_now' = tls_now + 700000
    /\ tls_last' = TlsLast("tick", {})
    /\ UNCHANGED <<tls_mode, tls_conns, peers_gauge, banned_peers,
                   invalid_count, tls_events, buckets>>
    /\ OutsideTls

TlsNext ==
    \/ conn_event
    \/ cleanup_connections
    \/ tls_ban_node
    \/ tls_tick

(***************************************************************************)
(* Validation of inbound packets (p2p.rs validate_packet and               *)
(* incoming_plaintext).                                                    *)
(*                                                                         *)
(* Bytes 24..28 of a message are its type.  pkt_valid and pkt_validated    *)
(* are left out: they are set together, in the normal modes only, so the   *)
(* test pkt_valid() || !pkt_validated() is true wherever it is made.       *)
(***************************************************************************)
\* the types of a message, as the four characters at bytes 24..28
PROTOCOL_MESSAGE_TYPE_REQUEST_PING == <<1, 0, 0, 1>>
PROTOCOL_MESSAGE_TYPE_DIRECT_MESSAGE == <<2, 0, 0, 1>>
PROTOCOL_MESSAGE_TYPE_BROADCASTED_MESSAGE == <<2, 0, 0, 2>>

\* a serialized message of a type and a length
SerializedMessage(msg_num, len) ==
    [i \in 1 .. len |-> IF i \in 25 .. 28 THEN msg_num[i - 24] ELSE 0]

\* bytes 24..28 of a buffer, << >> if it is shorter
msg_num_of(bytes) == IF Len(bytes) >= 28 THEN Slice(bytes, 24, 28) ELSE << >>

\* NetworkMessage::deserialize gives a NetworkPacket
IsNetworkPacket(bytes) ==
    msg_num_of(bytes) \in {PROTOCOL_MESSAGE_TYPE_DIRECT_MESSAGE,
                           PROTOCOL_MESSAGE_TYPE_BROADCASTED_MESSAGE}

BootConnection(expected_size, currently_read, pkt_buffer, delivered, is_closing) ==
    [expected_size |-> expected_size, currently_read |-> currently_read,
     pkt_buffer |-> pkt_buffer, delivered |-> delivered, closing |-> is_closing]

\* Connection::validate_packet: in the bootstrapper modes a buffer of 132
\* bytes or more that holds a direct or broadcast message is cleared and the
\* connection closed
validate_packet(c, m) ==
    IF c.pkt_buffer.is_some /\ Len(c.pkt_buffer.bytes) >= 132
       /\ is_bootstrapper_mode(m)
       /\ IsNetworkPacket(c.pkt_buffer.bytes)
    THEN [clear_buffer(c) EXCEPT !.closing = TRUE]
    ELSE c

\* Connection::incoming_plaintext with its call of validate_packet
RECURSIVE incoming_plaintext_validated(_, _, _)
incoming_plaintext_validated(conn, buf, m) ==
    LET c == validate_packet(conn, m) IN
    IF c.expected_size > 0 /\ c.currently_read = c.expected_size
    THEN incoming_plaintext_validated(clear_buffer(complete_packet(c)), buf, m)
    ELSE IF c.expected_size > 0 /\ Len(buf) <= c.expected_size - c.currently_read
    THEN LET a == append_buffer(c, buf) IN
         IF a.expected_size = a.currently_read
         THEN clear_buffer(complete_packet(a))
         ELSE a
    ELSE IF c.expected_size > 0 /\ Len(buf) > c.expected_size - c.currently_read
    THEN LET to_take == c.expected_size - c.currently_read
             a == append_buffer(c, Slice(buf, 0, to_take))
         IN incoming_plaintext_validated(clear_buffer(complete_packet(a)),
                                         Slice(buf, to_take, Len(buf)), m)
    ELSE IF Len(buf) >= 4
    THEN LET size == read_u32(Slice(buf, 0, 4)) IN
         IF size > PACKET_SIZE_LIMIT
         THEN incoming_plaintext_validated([c EXCEPT !.expected_size = 0],
                                           Slice(buf, 4, Len(buf)), m)
         ELSE LET s == setup_buffer([c EXCEPT !.expected_size = size]) IN
              IF Len(buf) > 4
              THEN incoming_plaintext_validated(s, Slice(buf, 4, Len(buf)), m)
              ELSE s
    ELSE c

\* the messages a peer sends: a ping, a direct message or a broadcast, of
\* fewer or of more than 132 bytes
BootMessageInputs ==
    { SerializedMessage(k, len) :
        k \in {PROTOCOL_MESSAGE_TYPE_REQUEST_PING,
               PROTOCOL_MESSAGE_TYPE_DIRECT_MESSAGE,
               PROTOCOL_MESSAGE_TYPE_BROADCASTED_MESSAGE},
        len \in {40, 140} }

\* the sizes of the reads: the length prefix, the bytes up to the type, the
\* bytes validate_packet waits for
ReadSizeInputs == {4, 28, 132}

BootIdle ==
    /\ boot_mode = NormalMode
    /\ boot_stream = << >>
    /\ boot_pos = 0
    /\ boot_conn = BootConnection(0, 0, NoBuffer, << >>, FALSE)

BootInit ==
    /\ boot_mode \in {NormalMode, BootstrapperMode}
    /\ \E m1, m2 \in BootMessageInputs :
          boot_stream = serialize_frame(m1) \o serialize_frame(m2)
    /\ boot_pos = 0
    /\ boot_conn = BootConnection(0, 0, NoBuffer, << >>, FALSE)

OutsideBoot ==
    UNCHANGED <<varsBuckets, varsConns, varsRouter, varsRecv, varsAdmit,
                varsSend, varsHouse, varsFrame, varsShake, varsBridge,
                varsLoop, varsTls, varsPromote, varsRace, varsNets,
                varsResend, varsStop, varsSkov>>

\* Connection::ready for a readable socket: try_plain_read gives the bytes
\* that have arrived to incoming_plaintext
boot_try_plain_read ==
    /\ ~boot_conn.closing
    /\ \E n \in {k \in ReadSizeInputs : k < Len(boot_stream) - boot_pos}
                \cup {Len(boot_stream) - boot_pos} :
          /\ n > 0
          /\ boot_conn' = incoming_plaintext_validated(
                              boot_conn, Slice(boot_stream, boot_pos, boot_pos + n),
                              boot_mode)
          /\ boot_pos' = boot_pos + n
    /\ UNCHANGED <<boot_mode, boot_stream>>
    /\ OutsideBoot

\* Connection::ready for a readable socket whose peer has closed it
boot_do_tls_read_eof ==
    /\ ~boot_conn.closing
    /\ boot_conn' = [boot_conn EXCEPT !.closing = TRUE]
    /\ UNCHANGED <<boot_mode, boot_stream, boot_pos>>
    /\ OutsideBoot

BootNext ==
    \/ boot_try_plain_read
    \/ boot_do_tls_read_eof

(***************************************************************************)
(* The block tree (concordium-global-state tree.rs).  add_block puts a     *)
(* pending block into the tree, or among the orphans of its parent, or     *)
(* among the blocks that wait for their last finalized block;              *)
(* process_orphan_block_queue and recheck_missing_parent take the orphans  *)
(* of a parent that has arrived and add them again.                        *)
(***************************************************************************)
GenesisHash == 0

HashInputs == 0 .. MaxBlocks

PendingBlock(hash, pointer, last_finalized) ==
    [hash |-> hash, pointer |-> pointer, last_finalized |-> last_finalized]

SkovOutcome(skov, result) == [skov |-> skov, result |-> result]

IsSkovError(result) ==
    result \in {"MissingParentBlock", "InvalidLastFinalized"}

\* the blocks of a HashSet in the order in which it is iterated
BlocksInOrder(order, blocks) ==
    LET hashes == SelectSeq(order, LAMBDA h : \E b \in blocks : b.hash = h) IN
    [k \in 1 .. Len(hashes) |-> CHOOSE b \in blocks : b.hash = hashes[k]]

\* the set kept under a key of orphan_blocks or awaiting_last_finalized
QueuedUnder(map, key) == IF key \in DOMAIN map THEN map[key] ELSE {}

\* SkovData::queue_orphan_block
queue_orphan_block(skov, pending_block) ==
    [skov EXCEPT !.orphan_blocks =
        MapInsert(skov.orphan_blocks, pending_block.pointer,
            QueuedUnder(skov.orphan_blocks, pending_block.pointer)
                \cup {pending_block})]

\* SkovData::queue_block_wo_last_finalized
queue_block_wo_last_finalized(skov, pending_block) ==
    [skov EXCEPT !.awaiting_last_finalized =
        MapInsert(skov.awaiting_last_finalized, pending_block.last_finalized,
            QueuedUnder(skov.awaiting_last_finalized,
                        pending_block.last_finalized) \cup {pending_block})]

\* SkovData::add_block
SkovData_add_block(skov, pending_block) ==
    IF pending_block.pointer \notin DOMAIN skov.block_tree
    THEN SkovOutcome(queue_orphan_block(skov, pending_block),
                     "MissingParentBlock")
    ELSE LET not_orphan ==
                 IF pending_block.pointer \in DOMAIN skov.orphan_blocks
                 THEN [skov EXCEPT !.orphan_blocks[pending_block.pointer] =
                                       @ \ {pending_block}]
                 ELSE skov
         IN
         IF not_orphan.last_finalized # pending_block.last_finalized
         THEN SkovOutcome(queue_block_wo_last_finalized(not_orphan, pending_block),
                          "InvalidLastFinalized")
         ELSE SkovOutcome(
                  [not_orphan EXCEPT !.block_tree =
                      MapInsert(not_orphan.block_tree, pending_block.hash,
                                pending_block)],
                  IF pending_block.hash \in DOMAIN not_orphan.block_tree
                  THEN "DuplicateEntry" ELSE "Success")

\* `for orphan in orphans { if let err @ SkovResult::Error(_) =
\* self.add_block(orphan) { return err; } }`
RECURSIVE add_orphans(_, _)
add_orphans(skov, orphans) ==
    IF orphans = << >> THEN SkovOutcome(skov, "Success")
    ELSE LET added == SkovData_add_block(skov, Head(orphans)) IN
         IF IsSkovError(added.result) THEN added
         ELSE add_orphans(added.skov, Tail(orphans))

\* SkovData::recheck_missing_parent, also the body of the loop of
\* process_orphan_block_queue
SkovData_recheck_missing_parent(skov, missing_parent, order) ==
    IF /\ missing_parent \in DOMAIN skov.block_tree
       /\ missing_parent \in DOMAIN skov.orphan_blocks
    THEN add_orphans(
             [skov EXCEPT !.orphan_blocks = MapRemove(@, missing_parent)],
             BlocksInOrder(order, skov.orphan_blocks[missing_parent]))
    ELSE SkovOutcome(skov, "Success")

\* SkovData::process_orphan_block_queue over the keys collected at its start
RECURSIVE SkovData_process_orphan_block_queue(_, _, _)
SkovData_process_orphan_block_queue(skov, missing_parent_hashes, order) ==
    IF missing_parent_hashes = << >> THEN SkovOutcome(skov, "Success")
    ELSE LET checked == SkovData_recheck_missing_parent(
                            skov, Head(missing_parent_hashes), order)
         IN
         IF IsSkovError(checked.result) THEN checked
         ELSE SkovData_process_orphan_block_queue(
                  checked.skov, Tail(missing_parent_hashes), order)

NoSkov ==
    [block_tree |-> << >>, orphan_blocks |-> << >>,
     awaiting_last_finalized |-> << >>, last_finalized |-> GenesisHash]

SkovIdle ==
    /\ pending_blocks = << >>
    /\ submitted = {}
    /\ skov_data = NoSkov
    /\ skov_result = "none"

\* SkovData::add_genesis has put the genesis block into the tree and made it
\* the last finalized block; every hash stands for one block
SkovInit ==
    /\ pending_blocks \in
          { f \in [1 .. MaxBlocks ->
                     {PendingBlock(h, p, lf) : h \in 1 .. MaxBlocks,
                                               p \in HashInputs,
                                               lf \in {GenesisHash, 1}}] :
              \A h \in 1 .. MaxBlocks : f[h].hash = h /\ f[h].pointer # h }
    /\ submitted = {}
    /\ skov_data =
          [NoSkov EXCEPT !.block_tree =
              MapInsert(<< >>, GenesisHash,
                  PendingBlock(GenesisHash, GenesisHash, GenesisHash))]
    /\ skov_result = "none"

OutsideSkov ==
    UNCHANGED <<varsBuckets, varsConns, varsRouter, varsRecv, varsAdmit,
                varsSend, varsHouse, varsFrame, varsShake, varsBridge,
                varsLoop, varsTls, varsBoot, varsPromote, varsRace, varsNets,
                varsResend, varsStop>>

\* a block is given to add_block
add_block ==
    /\ \E h \in 1 .. MaxBlocks :
          LET added == SkovData_add_block(skov_data, pending_blocks[h]) IN
          /\ skov_data' = added.skov
          /\ skov_result' = added.result
          /\ submitted' = submitted \cup {h}
    /\ UNCHANGED pending_blocks
    /\ OutsideSkov

process_orphan_block_queue ==
    /\ \E order \in IterationOrders(HashInputs) :
          LET processed ==
                  SkovData_process_orphan_block_queue(skov_data,
                      SelectSeq(order,
                          LAMBDA h : h \in DOMAIN skov_data.orphan_blocks),
                      order)
          IN
          /\ skov_data' = processed.skov
          /\ skov_result' = processed.result
    /\ UNCHANGED <<pending_blocks, submitted>>
    /\ OutsideSkov

recheck_missing_parent ==
    /\ \E missing_parent \in HashInputs, order \in IterationOrders(HashInputs) :
          LET checked == SkovData_recheck_missing_parent(
                             skov_data, missing_parent, order)
          IN
          /\ skov_data' = checked.skov
          /\ skov_result' = checked.result
    /\ UNCHANGED <<pending_blocks, submitted>>
    /\ OutsideSkov

SkovNext ==
    \/ add_block
    \/ process_orphan_block_queue
    \/ recheck_missing_parent

(***************************************************************************)
(* The consensus out queue.  CALLBACK_QUEUE is a bounded channel of        *)
(* RelayOrStopEnvelopes whose receiver sits behind a mutex.  recv_message  *)
(* holds the mutex while it waits in recv(); stop_baker sends a Stop,      *)
(* removes the baker and, when no baker is left, clears the queue if       *)
(* try_lock gives it the mutex.                                            *)
(***************************************************************************)
RelayEnvelope(variant) == [tag |-> "Relay", variant |-> variant]

StopEnvelope == [tag |-> "Stop", variant |-> "none"]

NoEnvelope == [tag |-> "none", variant |-> "none"]

BakerInputs == {1, 2}

\* the Stop envelopes in the channel
StopsIn(queue) == Cardinality({k \in 1 .. Len(queue) : queue[k].tag = "Stop"})

StopIdle ==
    /\ bakers = {}
    /\ out_queue = << >>
    /\ receiver_request = "free"
    /\ consumer_pc = "idle"
    /\ stop_pc = "idle"
    /\ stop_baker_id = 0
    /\ last_envelope = NoEnvelope
    /\ stops_sent = 0
    /\ stops_received = 0

\* start_baker has started one baker or two
StopInit ==
    /\ bakers \in {{1}, {1, 2}}
    /\ out_queue = << >>
    /\ receiver_request = "free"
    /\ consumer_pc = "idle"
    /\ stop_pc = "idle"
    /\ stop_baker_id = 0
    /\ last_envelope = NoEnvelope
    /\ stops_sent = 0
    /\ stops_received = 0

OutsideStop ==
    UNCHANGED <<varsBuckets, varsConns, varsRouter, varsRecv, varsAdmit,
                varsSend, varsHouse, varsFrame, varsShake, varsBridge,
                varsLoop, varsTls, varsBoot, varsPromote, varsRace, varsNets,
                varsResend, varsSkov>>

\* ConsensusOutQueue::send_message, called by a running baker; send blocks
\* while the channel is full
send_message ==
    /\ bakers # {}
    /\ Len(out_queue) < MaxOutQueue
    /\ \E variant \in {"Block", "FinalizationRecord", "FinalizationMessage"} :
          out_queue' = Append(out_queue, RelayEnvelope(variant))
    /\ UNCHANGED <<bakers, receiver_request, consumer_pc, stop_pc,
                   stop_baker_id, last_envelope, stops_sent, stops_received>>
    /\ OutsideStop

\* recv_message: safe_lock!(self.receiver_request)
recv_message_lock ==
    /\ consumer_pc = "idle"
    /\ receiver_request = "free"
    /\ receiver_request' = "consumer"
    /\ consumer_pc' = "recv"
    /\ UNCHANGED <<bakers, out_queue, stop_pc, stop_baker_id,
                   last_envelope, stops_sent, stops_received>>
    /\ OutsideStop

\* recv_message: recv() returns the first envelope once there is one; the
\* guard of the mutex is dropped at the end of the statement and a block or
\* a finalization record is relayed to skov
recv_message_recv ==
    /\ consumer_pc = "recv"
    /\ out_queue # << >>
    /\ last_envelope' = Head(out_queue)
    /\ out_queue' = Tail(out_queue)
    /\ stops_received' = IF Head(out_queue).tag = "Stop"
                         THEN stops_received + 1 ELSE stops_received
    /\ receiver_request' = "free"
    /\ consumer_pc' = "idle"
    /\ UNCHANGED <<bakers, stop_pc, stop_baker_id, stops_sent>>
    /\ OutsideStop

\* stop_baker up to CALLBACK_QUEUE.stop(): the Stop envelope is sent
stop_baker_send_stop ==
    /\ stop_pc = "idle"
    /\ stops_sent < MaxStops
    /\ Len(out_queue) < MaxOutQueue
    /\ \E baker_id \in BakerInputs : stop_baker_id' = baker_id
    /\ out_queue' = Append(out_queue, StopEnvelope)
    /\ stops_sent' = stops_sent + 1
    /\ stop_pc' = "stop sent"
    /\ UNCHANGED <<bakers, receiver_request, consumer_pc, last_envelope,
                   stops_received>>
    /\ OutsideStop

\* empty_queue!: with the mutex, try_iter().count() takes every envelope out
\* of the channel; without it nothing happens
empty_queue(queue, holder) == IF holder = "free" THEN << >> ELSE queue

\* stop_baker from bakers.get_mut to its end: the baker is stopped and
\* removed, and CALLBACK_QUEUE.clear() is called when no baker is left
stop_baker_remove_and_clear ==
    /\ stop_pc = "stop sent"
    /\ bakers' = bakers \ {stop_baker_id}
    /\ out_queue' = IF bakers' = {}
                         THEN empty_queue(out_queue, receiver_request)
                         ELSE out_queue
    /\ stop_pc' = "idle"
    /\ UNCHANGED <<receiver_request, consumer_pc, stop_baker_id,
                   last_envelope, stops_sent, stops_received>>
    /\ OutsideStop

StopNext ==
    \/ send_message
    \/ recv_message_lock
    \/ recv_message_recv
    \/ stop_baker_send_stop
    \/ stop_baker_remove_and_clear

(***************************************************************************)
(* The resend queue of p2p_node.rs.  process_messages puts a packet that   *)
(* process_network_packet reports as not sent into the queue;              *)
(* process_resend_queue drains the queue, tries every packet again and     *)
(* puts those that fail back while their attempts are below the maximum.   *)
(***************************************************************************)
\* the packets the node is asked to send
ResendPackets ==
    {NetworkPacket(Direct(PeerIdOf(k)), 100, NoId) : k \in 1 .. MaxResendPackets}

ResendIdle == retried = << >>

\* config.max_resend_attempts is fixed at start-up; the queue is empty
ResendInit ==
    /\ relay_pct = 100
    /\ sent = {}
    /\ last_call = NoCall
    /\ send_queue = << >>
    /\ resend_queue = << >>
    /\ max_resend_attempts \in {0, 1, 2}
    /\ retried = << >>

OutsideResend ==
    UNCHANGED <<varsBuckets, varsConns, varsRecv, varsAdmit, varsSend,
                varsHouse, varsFrame, varsShake, varsBridge, varsLoop,
                varsTls, varsBoot, varsPromote, varsRace, varsNets, varsStop,
                varsSkov>>

\* the entries of a drained queue that are put back: those that failed again
\* and whose attempts are below the maximum, with one attempt more
requeue(failures, max_attempts) ==
    LET kept == SelectSeq(failures, LAMBDA e : e.attempts < max_attempts) IN
    [k \in 1 .. Len(kept) |->
        ResendQueueEntry(kept[k].message, kept[k].attempts + 1)]

\* P2PNode::process_messages with one NetworkPacket on the send queue;
\* process_network_packet returns ret
process_messages_packet ==
    /\ \E inner_pkt \in ResendPackets \ DOMAIN retried, ret \in BOOLEAN :
          /\ resend_queue' =
                IF ~ret /\ max_resend_attempts > 0
                THEN Append(resend_queue, ResendQueueEntry(inner_pkt, 0))
                ELSE resend_queue
          /\ retried' = [p \in DOMAIN retried \cup {inner_pkt} |->
                            IF p = inner_pkt THEN 0 ELSE retried[p]]
    /\ UNCHANGED <<relay_pct, sent, last_call, send_queue, max_resend_attempts>>
    /\ OutsideResend

\* P2PNode::process_resend_queue: every entry of the queue is taken out and
\* tried; failed holds the positions of those process_network_packet reports
\* as not sent
process_resend_queue ==
    /\ resend_queue # << >>
    /\ \E failed \in SUBSET (1 .. Len(resend_queue)) :
          LET resend_failures ==
                  SelectSeq([k \in 1 .. Len(resend_queue) |->
                                [entry |-> resend_queue[k], failed |-> k \in failed]],
                            LAMBDA w : w.failed)
              failures == [k \in 1 .. Len(resend_failures) |->
                              resend_failures[k].entry]
          IN resend_queue' = requeue(failures, max_resend_attempts)
    /\ retried' = [p \in DOMAIN retried |->
                      IF \E k \in 1 .. Len(resend_queue) :
                             resend_queue[k].message = p
                      THEN retried[p] + 1 ELSE retried[p]]
    /\ UNCHANGED <<relay_pct, sent, last_call, send_queue, max_resend_attempts>>
    /\ OutsideResend

ResendNext ==
    \/ process_messages_packet
    \/ process_resend_queue

(***************************************************************************)
(* The networks of the node.  send_joinnetwork and send_leavenetwork queue *)
(* a request in the send_queue; process_messages takes it out, sends it to *)
(* the peers and changes the networks of the TlsServer.                    *)
(***************************************************************************)
OwnNetworkInputs == {100, 200, 300}

NetRequest(kind, network_id) == [kind |-> kind, network_id |-> network_id]

NoNetRequest == [kind |-> "none", network_id |-> 0, before |-> <<>>]

\* TlsServer::remove_network: self.networks.lock()?.retain(|x| x == network_id)
TlsServer_remove_network(networks, network_id) ==
    SelectSeq(networks, LAMBDA x : x = network_id)

\* TlsServer::add_network
TlsServer_add_network(networks, network_id) ==
    IF \E i \in 1 .. Len(networks) : networks[i] = network_id
    THEN networks
    ELSE Append(networks, network_id)

NetsIdle ==
    /\ server_networks = <<>>
    /\ request_queue = <<>>
    /\ last_request = NoNetRequest

\* TlsServer::new is given the networks of the configuration
NetsInit ==
    /\ server_networks \in {<<100>>, <<100, 200>>}
    /\ request_queue = <<>>
    /\ last_request = NoNetRequest

OutsideNets ==
    UNCHANGED <<varsBuckets, varsConns, varsRouter, varsRecv, varsAdmit,
                varsSend, varsHouse, varsFrame, varsShake, varsBridge,
                varsLoop, varsTls, varsBoot, varsPromote, varsRace,
                varsResend, varsStop, varsSkov>>

\* P2PNode::send_joinnetwork
send_joinnetwork ==
    /\ Len(request_queue) < MaxNetRequests
    /\ \E network_id \in OwnNetworkInputs :
          request_queue' =
              Append(request_queue, NetRequest("JoinNetwork", network_id))
    /\ UNCHANGED <<server_networks, last_request>>
    /\ OutsideNets

\* P2PNode::send_leavenetwork
send_leavenetwork ==
    /\ Len(request_queue) < MaxNetRequests
    /\ \E network_id \in OwnNetworkInputs :
          request_queue' =
              Append(request_queue, NetRequest("LeaveNetwork", network_id))
    /\ UNCHANGED <<server_networks, last_request>>
    /\ OutsideNets

\* P2PNode::process_messages for a JoinNetwork or a LeaveNetwork at the front
\* of the send_queue: the request is written to every connection with a peer
\* and the networks of the TlsServer are changed
process_network_request ==
    /\ request_queue # <<>>
    /\ LET inner_pkt == Head(request_queue) IN
       /\ server_networks' =
             IF inner_pkt.kind = "JoinNetwork"
             THEN TlsServer_add_network(server_networks, inner_pkt.network_id)
             ELSE TlsServer_remove_network(server_networks, inner_pkt.network_id)
       /\ last_request' = [kind |-> inner_pkt.kind,
                           network_id |-> inner_pkt.network_id,
                           before |-> server_networks]
    /\ request_queue' = Tail(request_queue)
    /\ OutsideNets

NetsNext ==
    \/ send_joinnetwork
    \/ send_leavenetwork
    \/ process_network_request

(***************************************************************************)
(* Concurrent accept and connect.  Both take the conn_candidates mutex     *)
(* before they look for a connection with the remote address and hold it   *)
(* until they return, after the insert.                                    *)
(***************************************************************************)
RaceThreads == 1 .. MaxThreads

NoThread == 0

RaceCall(fn, addr) == [fn |-> fn, addr |-> addr]

NoRaceCall == RaceCall("none", SelfAddr)

RaceIdle ==
    /\ race_pc = [th \in {} |-> "idle"]
    /\ race_call = [th \in {} |-> NoRaceCall]
    /\ candidates_lock = NoThread

RaceInit ==
    /\ race_pc = [th \in RaceThreads |-> "idle"]
    /\ race_call = [th \in RaceThreads |-> NoRaceCall]
    /\ candidates_lock = NoThread

OutsideRace ==
    UNCHANGED <<varsBuckets, varsRouter, varsRecv, varsAdmit, varsSend,
                varsHouse, varsFrame, varsShake, varsBridge, varsLoop,
                varsTls, varsBoot, varsPromote, varsNets, varsResend,
                varsStop, varsSkov>>

\* a Mutex is taken only when no thread holds it
lock_or_die_unlocked(holder) == holder = holder

lock_or_die(holder) == holder = NoThread

\* the guard and the maps are released when the call returns
race_return(th) ==
    /\ race_pc' = [race_pc EXCEPT ![th] = "idle"]
    /\ candidates_lock' = IF candidates_lock = th THEN NoThread
                          ELSE candidates_lock

\* accept: node.connection_handler.socket_server.accept() returns a socket
\* and the address of the remote end
accept_socket(th) ==
    /\ race_pc[th] = "idle"
    /\ next_token <= MaxTokens
    /\ \E addr \in AddrInputs :
          race_call' = [race_call EXCEPT ![th] = RaceCall("accept", addr)]
    /\ race_pc' = [race_pc EXCEPT ![th] = "lock"]
    /\ UNCHANGED <<varsConns, candidates_lock>>
    /\ OutsideRace

\* connect, up to the lock: the address is not the node's own
connect_begin(th) ==
    /\ race_pc[th] = "idle"
    /\ next_token <= MaxTokens
    /\ \E peer_addr \in AddrInputs :
          /\ peer_addr # SelfAddr
          /\ race_call' = [race_call EXCEPT ![th] = RaceCall("connect", peer_addr)]
    /\ race_pc' = [race_pc EXCEPT ![th] = "lock"]
    /\ UNCHANGED <<varsConns, candidates_lock>>
    /\ OutsideRace

\* let mut candidates_lock = lock_or_die!(node.conn_candidates())
lock_candidates(th) ==
    /\ race_pc[th] = "lock"
    /\ lock_or_die(candidates_lock)
    /\ candidates_lock' = th
    /\ race_pc' = [race_pc EXCEPT ![th] = "check"]
    /\ UNCHANGED <<varsConns, race_call>>
    /\ OutsideRace

\* the search of the two maps for the remote address; the call bails when it
\* finds one
check_duplicate(th) ==
    /\ race_pc[th] = "check"
    /\ IF \/ \E conn \in Values(conn_candidates) : conn.addr = race_call[th].addr
          \/ \E conn \in Values(connections) : conn.addr = race_call[th].addr
       THEN race_return(th)
       ELSE /\ race_pc' = [race_pc EXCEPT ![th] = "insert"]
            /\ UNCHANGED candidates_lock
    /\ UNCHANGED <<varsConns, race_call>>
    /\ OutsideRace

\* the token is drawn and the connection inserted into the candidates; in
\* connect, TcpStream::connect may fail before that
insert_candidate(th) ==
    /\ race_pc[th] = "insert"
    /\ \E tcp_ok \in BOOLEAN :
          IF tcp_ok \/ race_call[th].fn = "accept"
          THEN /\ conn_candidates' =
                     MapInsert(conn_candidates, fetch_add(next_token).value,
                         Connection(fetch_add(next_token).value,
                                    race_call[th].addr, Node, NoId, FALSE, {}))
               /\ next_token' = fetch_add(next_token).next
          ELSE UNCHANGED <<conn_candidates, next_token>>
    /\ race_return(th)
    /\ UNCHANGED <<connections, race_call>>
    /\ OutsideRace

RaceNext ==
    \E th \in RaceThreads :
       \/ accept_socket(th)
       \/ connect_begin(th)
       \/ lock_candidates(th)
       \/ check_duplicate(th)
       \/ insert_candidate(th)

(***************************************************************************)
(* Promotion of a connection to post-handshake.  A Connection is shared    *)
(* between threads; its is_post_handshake is an AtomicBool and its         *)
(* remote_peer.id sits behind a lock of its own, so another thread can     *)
(* read the two between the steps of promote_to_post_handshake.            *)
(***************************************************************************)
\* the two fields of a Connection that promote_to_post_handshake sets
SharedConn(is_post_handshake, id) ==
    [is_post_handshake |-> is_post_handshake, id |-> id]

\* what a thread read of a connection
Observation(token, is_post_handshake, id) ==
    [token |-> token, is_post_handshake |-> is_post_handshake, id |-> id]

NoObservation == Observation(0, FALSE, NoId)

PromoteIdle ==
    /\ shared_conns = [t \in {} |-> SharedConn(FALSE, NoId)]
    /\ promote_pc = [t \in {} |-> "candidate"]
    /\ observed = NoObservation

\* connections whose handshake is about to complete
PromoteInit ==
    /\ shared_conns = [t \in 1 .. MaxPromoted |-> SharedConn(FALSE, NoId)]
    /\ promote_pc = [t \in 1 .. MaxPromoted |-> "candidate"]
    /\ observed = NoObservation

OutsidePromote ==
    UNCHANGED <<varsBuckets, varsConns, varsRouter, varsRecv, varsAdmit,
                varsSend, varsHouse, varsFrame, varsShake, varsBridge,
                varsLoop, varsTls, varsBoot, varsRace, varsNets, varsResend,
                varsStop, varsSkov>>

\* promote_to_post_handshake, its first statement:
\* self.is_post_handshake.store(true, Ordering::SeqCst)
store_is_post_handshake ==
    /\ \E token \in DOMAIN shared_conns :
          /\ promote_pc[token] = "candidate"
          /\ shared_conns' =
                [shared_conns EXCEPT ![token].is_post_handshake = TRUE]
          /\ promote_pc' = [promote_pc EXCEPT ![token] = "flag stored"]
    /\ UNCHANGED observed
    /\ OutsidePromote

\* promote_to_post_handshake, its second statement:
\* *write_or_die!(self.remote_peer.id) = Some(id)
write_remote_peer_id ==
    /\ \E token \in DOMAIN shared_conns :
          /\ promote_pc[token] = "flag stored"
          /\ shared_conns' = [shared_conns EXCEPT ![token].id = PeerIdOf(token)]
          /\ promote_pc' = [promote_pc EXCEPT ![token] = "promoted"]
    /\ UNCHANGED observed
    /\ OutsidePromote

\* another thread loads is_post_handshake and reads remote_peer.id of a
\* connection, as forward_network_message and is_valid_broadcast_target do
observe_connection ==
    /\ \E token \in DOMAIN shared_conns :
          observed' = Observation(token, shared_conns[token].is_post_handshake,
                                  shared_conns[token].id)
    /\ UNCHANGED <<shared_conns, promote_pc>>
    /\ OutsidePromote

PromoteNext ==
    \/ store_is_post_handshake
    \/ write_remote_peer_id
    \/ observe_connection

(***************************************************************************)
(* Buckets actions.                                                        *)
(***************************************************************************)
\* a Buckets operation leaves the rest of the node alone
OutsideBuckets ==
    UNCHANGED <<varsConns, varsRouter, varsRecv, varsAdmit, varsSend,
                varsHouse, varsFrame, varsShake, varsBridge, varsLoop,
                varsTls, varsBoot, varsPromote, varsRace, varsNets,
                varsResend, varsStop, varsSkov>>

\* A new peer completes its handshake: it is inserted into the buckets.
PeerHandshake ==
    /\ ops = 0
    /\ filled < MaxFill
    /\ buckets' = insert_into_bucket(buckets, FillPeer(filled), OwnId, << >>)
    /\ bk_pre' = buckets
    /\ bk_op' = BkOp("insert", FillPeer(filled))
    /\ filled' = filled + 1
    /\ UNCHANGED <<updated, ops>>
    /\ OutsideBuckets

\* A connected peer sends JoinNetwork: its networks are updated.
PeerJoinNetwork ==
    /\ ops = 0
    /\ updated < filled
    /\ buckets' = update_network_ids(buckets, FillPeer(updated), <<100>>)
    /\ bk_pre' = buckets
    /\ bk_op' = BkOp("update", FillPeer(updated))
    /\ updated' = updated + 1
    /\ UNCHANGED <<filled, ops>>
    /\ OutsideBuckets

InsertIntoBucket ==
    /\ ops < MaxOps
    /\ \E node \in PeerInputs, nids \in NidsInputs :
          /\ buckets' = insert_into_bucket(buckets, node, OwnId, nids)
          /\ bk_op' = BkOp("insert", node)
    /\ bk_pre' = buckets
    /\ ops' = ops + 1
    /\ UNCHANGED <<filled, updated>>
    /\ OutsideBuckets

UpdateNetworkIds ==
    /\ ops < MaxOps
    /\ \E node \in PeerInputs, nids \in NidsInputs :
          /\ buckets' = update_network_ids(buckets, node, nids)
          /\ bk_op' = BkOp("update", node)
    /\ bk_pre' = buckets
    /\ ops' = ops + 1
    /\ UNCHANGED <<filled, updated>>
    /\ OutsideBuckets

CleanPeersOlderThan ==
    /\ ops < MaxOps
    /\ \E t \in StampInputs :
          buckets' = clean_peers_older_than(buckets, t)
    /\ bk_pre' = buckets
    /\ bk_op' = BkOp("clean", NoPeer)
    /\ ops' = ops + 1
    /\ UNCHANGED <<filled, updated>>
    /\ OutsideBuckets

BucketsNext ==
    \/ PeerHandshake
    \/ PeerJoinNetwork
    \/ InsertIntoBucket
    \/ UpdateNetworkIds
    \/ CleanPeersOlderThan

(***************************************************************************)
(* The specifications, one per subsystem.                                  *)
(***************************************************************************)
InitRouter ==
    BucketsInit /\ ConnsInit /\ RouterInit /\ RecvIdle /\ AdmitIdle /\
    SendInit /\ HouseIdle /\ FrameIdle /\ ShakeIdle /\ BridgeIdle /\
    LoopIdle /\ TlsIdle /\ BootIdle /\ PromoteIdle /\ RaceIdle /\ NetsIdle /\
    ResendIdle /\ StopIdle /\ SkovIdle

SpecRouter == InitRouter /\ [][RouterNext]_vars

InitBuckets ==
    BucketsInit /\ ConnsInit /\ RouterIdle /\ RecvIdle /\ AdmitIdle /\
    SendInit /\ HouseIdle /\ FrameIdle /\ ShakeIdle /\ BridgeIdle /\
    LoopIdle /\ TlsIdle /\ BootIdle /\ PromoteIdle /\ RaceIdle /\ NetsIdle /\
    ResendIdle /\ StopIdle /\ SkovIdle

SpecBuckets == InitBuckets /\ [][BucketsNext]_vars

InitRecv ==
    BucketsInit /\ RecvConnsInit /\ RouterIdle /\ AdmitIdle /\ SendInit /\
    RecvInit /\ HouseIdle /\ FrameIdle /\ ShakeIdle /\ BridgeIdle /\
    LoopIdle /\ TlsIdle /\ BootIdle /\ PromoteIdle /\ RaceIdle /\ NetsIdle /\
    ResendIdle /\ StopIdle /\ SkovIdle

SpecRecv == InitRecv /\ [][RecvNext]_vars

InitAdmit ==
    BucketsInit /\ AdmitConnsInit /\ RouterIdle /\ RecvIdle /\ SendInit /\
    AdmitInit /\ HouseIdle /\ FrameIdle /\ ShakeIdle /\ BridgeIdle /\
    LoopIdle /\ TlsIdle /\ BootIdle /\ PromoteIdle /\ RaceIdle /\ NetsIdle /\
    ResendIdle /\ StopIdle /\ SkovIdle

SpecAdmit == InitAdmit /\ [][AdmitNext]_vars

InitSend ==
    BucketsInit /\ SendConnsInit /\ RouterIdle /\ RecvIdle /\ AdmitIdle /\
    SendInit /\ HouseIdle /\ FrameIdle /\ ShakeIdle /\ BridgeIdle /\
    LoopIdle /\ TlsIdle /\ BootIdle /\ PromoteIdle /\ RaceIdle /\ NetsIdle /\
    ResendIdle /\ StopIdle /\ SkovIdle

SpecSend == InitSend /\ [][SendNext]_vars

InitPromote ==
    BucketsInit /\ ConnsInit /\ RouterIdle /\ RecvIdle /\ AdmitIdle /\
    SendInit /\ HouseIdle /\ FrameIdle /\ ShakeIdle /\ BridgeIdle /\
    LoopIdle /\ TlsIdle /\ BootIdle /\ PromoteInit /\ RaceIdle /\ NetsIdle /\
    ResendIdle /\ StopIdle /\ SkovIdle

SpecPromote == InitPromote /\ [][PromoteNext]_vars

InitSkov ==
    BucketsInit /\ ConnsInit /\ RouterIdle /\ RecvIdle /\ AdmitIdle /\
    SendInit /\ HouseIdle /\ FrameIdle /\ ShakeIdle /\ BridgeIdle /\
    LoopIdle /\ TlsIdle /\ BootIdle /\ PromoteIdle /\ RaceIdle /\ NetsIdle /\
    ResendIdle /\ StopIdle /\ SkovInit

SpecSkov == InitSkov /\ [][SkovNext]_vars

InitStop ==
    BucketsInit /\ ConnsInit /\ RouterIdle /\ RecvIdle /\ AdmitIdle /\
    SendInit /\ HouseIdle /\ FrameIdle /\ ShakeIdle /\ BridgeIdle /\
    LoopIdle /\ TlsIdle /\ BootIdle /\ PromoteIdle /\ RaceIdle /\ NetsIdle /\
    ResendIdle /\ StopInit /\ SkovIdle

SpecStop == InitStop /\ [][StopNext]_vars

InitResend ==
    BucketsInit /\ ConnsInit /\ ResendInit /\ RecvIdle /\ AdmitIdle /\
    SendInit /\ HouseIdle /\ FrameIdle /\ ShakeIdle /\ BridgeIdle /\
    LoopIdle /\ TlsIdle /\ BootIdle /\ PromoteIdle /\ RaceIdle /\ NetsIdle /\
    StopIdle /\ SkovIdle

SpecResend == InitResend /\ [][ResendNext]_vars

InitNets ==
    BucketsInit /\ ConnsInit /\ RouterIdle /\ RecvIdle /\ AdmitIdle /\
    SendInit /\ HouseIdle /\ FrameIdle /\ ShakeIdle /\ BridgeIdle /\
    LoopIdle /\ TlsIdle /\ BootIdle /\ PromoteIdle /\ RaceIdle /\ NetsInit /\
    ResendIdle /\ StopIdle /\ SkovIdle

SpecNets == InitNets /\ [][NetsNext]_vars

InitRace ==
    BucketsInit /\ AdmitConnsInit /\ RouterIdle /\ RecvIdle /\ AdmitIdle /\
    SendInit /\ HouseIdle /\ FrameIdle /\ ShakeIdle /\ BridgeIdle /\
    LoopIdle /\ TlsIdle /\ BootIdle /\ PromoteIdle /\ RaceInit /\ NetsIdle /\
    ResendIdle /\ StopIdle /\ SkovIdle

SpecRace == InitRace /\ [][RaceNext]_vars

InitTokens ==
    BucketsInit /\ AdmitConnsInit /\ RouterIdle /\ RecvInit /\ AdmitInit /\
    SendInit /\ HouseIdle /\ FrameIdle /\ ShakeIdle /\ BridgeIdle /\
    LoopIdle /\ TlsIdle /\ BootIdle /\ PromoteIdle /\ RaceIdle /\ NetsIdle /\
    ResendIdle /\ StopIdle /\ SkovIdle

SpecTokens == InitTokens /\ [][TokensNext]_vars

InitReplies ==
    BucketsInit /\ SendConnsInit /\ RouterIdle /\ RecvInit /\ AdmitIdle /\
    SendInit /\ HouseIdle /\ FrameIdle /\ ShakeIdle /\ BridgeIdle /\
    LoopIdle /\ TlsIdle /\ BootIdle /\ PromoteIdle /\ RaceIdle /\ NetsIdle /\
    ResendIdle /\ StopIdle /\ SkovIdle

SpecReplies == InitReplies /\ [][RepliesNext]_vars

InitBanForward ==
    BucketsInit /\ BanConnsInit /\ RouterIdle /\ RecvInit /\ AdmitIdle /\
    SendInit /\ HouseIdle /\ FrameIdle /\ ShakeIdle /\ BridgeIdle /\
    LoopIdle /\ TlsIdle /\ BootIdle /\ PromoteIdle /\ RaceIdle /\ NetsIdle /\
    ResendIdle /\ StopIdle /\ SkovIdle

SpecBanForward == InitBanForward /\ [][BanForwardNext]_vars

InitHouse ==
    BucketsInit /\ HouseConnsInit /\ RouterIdle /\ RecvIdle /\ AdmitInit /\
    SendInit /\ HouseInit /\ FrameIdle /\ ShakeIdle /\ BridgeIdle /\
    LoopIdle /\ TlsIdle /\ BootIdle /\ PromoteIdle /\ RaceIdle /\ NetsIdle /\
    ResendIdle /\ StopIdle /\ SkovIdle

SpecHouse == InitHouse /\ [][HouseNext]_vars

InitFrame ==
    BucketsInit /\ ConnsInit /\ RouterIdle /\ RecvIdle /\ AdmitIdle /\
    SendInit /\ HouseIdle /\ FrameInit /\ ShakeIdle /\ BridgeIdle /\
    LoopIdle /\ TlsIdle /\ BootIdle /\ PromoteIdle /\ RaceIdle /\ NetsIdle /\
    ResendIdle /\ StopIdle /\ SkovIdle

SpecFrame == InitFrame /\ [][FrameNext]_vars

InitShake ==
    BucketsInit /\ ShakeConnsInit /\ RouterIdle /\ RecvIdle /\ AdmitIdle /\
    SendInit /\ HouseIdle /\ FrameIdle /\ ShakeInit /\ BridgeIdle /\
    LoopIdle /\ TlsIdle /\ BootIdle /\ PromoteIdle /\ RaceIdle /\ NetsIdle /\
    ResendIdle /\ StopIdle /\ SkovIdle

SpecShake == InitShake /\ [][ShakeNext]_vars

InitBridge ==
    BucketsInit /\ ConnsInit /\ RouterIdle /\ RecvIdle /\ AdmitIdle /\
    SendInit /\ HouseIdle /\ FrameIdle /\ ShakeIdle /\ BridgeIdle /\
    LoopIdle /\ TlsIdle /\ BootIdle /\ PromoteIdle /\ RaceIdle /\ NetsIdle /\
    ResendIdle /\ StopIdle /\ SkovIdle

SpecBridge == InitBridge /\ [][BridgeNext]_vars

\* the global state thread is a thread of its own and keeps running
SpecBridgeFair == SpecBridge /\ WF_vars(BridgeThread)

InitLoop ==
    BucketsInit /\ ConnsInit /\ RouterIdle /\ RecvIdle /\ AdmitIdle /\
    SendInit /\ HouseIdle /\ FrameIdle /\ ShakeIdle /\ BridgeIdle /\
    LoopIdle /\ TlsIdle /\ BootIdle /\ PromoteIdle /\ RaceIdle /\ NetsIdle /\
    ResendIdle /\ StopIdle /\ SkovIdle

SpecLoop == InitLoop /\ [][LoopNext]_vars

\* the spawned thread keeps running, and a join returns once its thread ended
SpecLoopFair ==
    SpecLoop /\ WF_vars(LoopThread) /\ WF_vars(join_end) /\ WF_vars(join2_end)

InitTls ==
    BucketsInit /\ ConnsInit /\ RouterIdle /\ RecvIdle /\ AdmitIdle /\
    SendInit /\ HouseIdle /\ FrameIdle /\ ShakeIdle /\ BridgeIdle /\
    LoopIdle /\ TlsInit /\ BootIdle /\ PromoteIdle /\ RaceIdle /\ NetsIdle /\
    ResendIdle /\ StopIdle /\ SkovIdle

SpecTls == InitTls /\ [][TlsNext]_vars

InitBans ==
    BucketsInit /\ AdmitConnsInit /\ RouterIdle /\ RecvIdle /\ AdmitInit /\
    SendInit /\ HouseInit /\ FrameIdle /\ ShakeIdle /\ BridgeIdle /\
    LoopIdle /\ TlsIdle /\ BootIdle /\ PromoteIdle /\ RaceIdle /\ NetsIdle /\
    ResendIdle /\ StopIdle /\ SkovIdle

SpecBans == InitBans /\ [][BansNext]_vars

\* time passes, and housekeeping keeps running
SpecBansFair ==
    SpecBans /\ WF_vars(Tick) /\ WF_vars(connection_housekeeping)

InitBoot ==
    BucketsInit /\ ConnsInit /\ RouterIdle /\ RecvIdle /\ AdmitIdle /\
    SendInit /\ HouseIdle /\ FrameIdle /\ ShakeIdle /\ BridgeIdle /\
    LoopIdle /\ TlsIdle /\ BootInit /\ PromoteIdle /\ RaceIdle /\ NetsIdle /\
    ResendIdle /\ StopIdle /\ SkovIdle

SpecBoot == InitBoot /\ [][BootNext]_vars

InitBatch ==
    BucketsInit /\ ConnsInit /\ RouterIdle /\ RecvIdle /\ AdmitIdle /\
    SendInit /\ HouseIdle /\ FrameIdle /\ ShakeIdle /\ BatchInit /\
    LoopIdle /\ TlsIdle /\ BootIdle /\ PromoteIdle /\ RaceIdle /\ NetsIdle /\
    ResendIdle /\ StopIdle /\ SkovIdle

\* the thread alone, on queues filled beforehand
SpecBatch == InitBatch /\ [][BridgeThread]_vars

(***************************************************************************)
(* Receiving: properties.                                                  *)
(***************************************************************************)
\* C1: on a connection that has not completed the handshake nothing but
\* Handshake requests and responses is processed: no packet (and no other
\* message) received on it is handled, forwarded, or handed on.
C1_OnlyHandshakeBeforeHandshake ==
    /\ \A i \in 1 .. Len(handled) :
          ~handled[i].post => handled[i].msg.kind \in HandshakeKinds
    /\ \A i \in 1 .. Len(forwarded) : forwarded[i].post
    /\ (~last_result.post /\ last_result.outcome = "processed")
          => last_result.msg.kind \in HandshakeKinds

\* a packet arrived on a connection that has not shaken hands, and was refused
C1_PacketRefusedBeforeHandshake ==
    /\ last_result.outcome = "refused"
    /\ last_result.msg.kind = "Packet"
    /\ ~last_result.post
    /\ last_result.token \in DOMAIN conn_candidates

\* the capacity of the deduplication queue of a packet type
DedupWindow(ptype) == DeduplicationQueues_default[QueueOf(ptype)].capacity

\* two records of one packet of a deduplicated payload class
SamePacket(a, b) ==
    /\ a.msg.kind = "Packet"
    /\ QueueOf(a.msg.ptype) # "none"
    /\ b.msg = a.msg

\* the later of two records was made when the earlier one's digest had left
\* the window: more digests than the queue holds were pushed in between
OutsideWindow(log) ==
    \A i, j \in 1 .. Len(log) :
        (i < j /\ SamePacket(log[i], log[j]))
            => log[j].pushed - log[i].pushed > DedupWindow(log[i].msg.ptype)

\* C2: of two packets of one payload class with the same payload bytes,
\* received on any connections while the first one's digest is within the
\* class's window, at most one is processed; the other is neither handled
\* nor forwarded.
C2_AtMostOneWithinWindow ==
    /\ OutsideWindow(handled)
    /\ OutsideWindow(forwarded)

\* a packet was dropped as a duplicate of one processed on another connection
C2_DuplicateDroppedAcrossConnections ==
    /\ last_result.outcome = "duplicate"
    /\ \E i \in 1 .. Len(handled) :
          /\ handled[i].msg = last_result.msg
          /\ handled[i].token # last_result.token

\* the capacities of DeduplicationQueues::default
DedupCapacity(q) == IF q \in {"blocks", "fin_records"} THEN 64 ELSE 32768

\* the step looked a packet up in the queue q
LookedUp(q) ==
    /\ <<recvs, flooded>>' # <<recvs, flooded>>
    /\ last_result'.msg.kind = "Packet"
    /\ QueueOf(last_result'.msg.ptype) = q
    /\ last_result'.outcome \notin {"disregarded", "invalid"}

\* C34: a deduplication queue holds at most its capacity of digests (64 for
\* blocks and finalization records, 32768 for transactions and finalization
\* messages), all distinct; a digest is added only on a miss, at the end,
\* and on a full queue exactly the oldest digest leaves; a packet is a
\* duplicate if and only if its digest is in the queue of its class.
C34_DedupQueueBoundedOldestEvicted ==
    /\ [](\A q \in DOMAIN deduplication_queues :
            LET items == deduplication_queues[q].items IN
            /\ deduplication_queues[q].capacity = DedupCapacity(q)
            /\ Len(items) <= DedupCapacity(q)
            /\ \A i, j \in 1 .. Len(items) : items[i] = items[j] => i = j)
    /\ [][\A q \in DOMAIN deduplication_queues :
            LET old == deduplication_queues[q].items
                new == deduplication_queues'[q].items
            IN  new # old =>
                   /\ new = IF Len(old) = DedupCapacity(q)
                            THEN Append(Tail(old), new[Len(new)])
                            ELSE Append(old, new[Len(new)])
                   /\ \A i \in 1 .. Len(old) : old[i] # new[Len(new)]
                   /\ LookedUp(q)
                   /\ new[Len(new)] = XxHash64(last_result'.msg.payload)]_vars
    /\ [][\A q \in DOMAIN deduplication_queues :
            LookedUp(q) =>
               ( last_result'.outcome = "duplicate"
                  <=> CircularQueue_any(deduplication_queues[q],
                                        XxHash64(last_result'.msg.payload)) )]_vars

\* the queue of the blocks is full and has lost its oldest digest, and the
\* last packet was found in it
C34_FullQueueEvictedAndHit ==
    /\ Len(deduplication_queues["blocks"].items) = 64
    /\ deduplication_queues["blocks"].pushed > 64
    /\ last_result.outcome = "duplicate"
    /\ last_result.msg.ptype = "Block"

\* C35: under any interleaving of accept and connect calls, no two
\* connections of the candidates and the established connections have the
\* same remote socket address.
C35_NoTwoConnectionsToOneAddress ==
    \A t1 \in DOMAIN AllConns, t2 \in DOMAIN AllConns :
        t1 # t2 => AllConns[t1].addr # AllConns[t2].addr

\* an accept holds the lock and is about to insert its connection while a
\* connect to the same address waits for the lock
C35_RacedForOneAddress ==
    \E th1 \in RaceThreads, th2 \in RaceThreads :
        /\ race_call[th1] = RaceCall("accept", race_call[th2].addr)
        /\ race_call[th2].fn = "connect"
        /\ race_pc[th1] = "insert"
        /\ race_pc[th2] = "lock"

\* C38: a packet that could not be sent is tried from the resend queue at
\* most max_resend_attempts times and is then dropped; with
\* max_resend_attempts = 0 a failed packet is never put into the queue.
C38_RetriedAtMostMaxAttempts ==
    /\ \A p \in DOMAIN retried : retried[p] <= max_resend_attempts
    /\ max_resend_attempts = 0 => resend_queue = << >>

\* C39: a Stop envelope that stop_baker has sent is received by the consumer
\* or is still in the channel: the clear of the queue, made when the last
\* baker is removed, never discards it.
C39_StopNeverDiscarded ==
    stops_sent = stops_received + StopsIn(out_queue)

\* the blocks kept under any key of orphan_blocks or awaiting_last_finalized
QueuedBlocks(map) == UNION {map[key] : key \in DOMAIN map}

\* C40: no pending block is lost by the block tree: every block ever given
\* to add_block is in block_tree, in orphan_blocks or in
\* awaiting_last_finalized.
C40_NoPendingBlockLost ==
    \A h \in submitted :
        \/ h \in DOMAIN skov_data.block_tree
        \/ pending_blocks[h] \in QueuedBlocks(skov_data.orphan_blocks)
        \/ pending_blocks[h] \in QueuedBlocks(skov_data.awaiting_last_finalized)

\* the elements of a Vec
VecToSet(seq) == {seq[i] : i \in 1 .. Len(seq)}

\* C37: processing a local LeaveNetwork(n) removes exactly n from the
\* networks of the node and keeps every other network it had joined.
C37_LeaveRemovesExactlyThatNetwork ==
    last_request.kind = "LeaveNetwork" =>
        VecToSet(server_networks)
            = VecToSet(last_request.before) \ {last_request.network_id}

\* the digest of the last message is in the queue of its class
LastDigestQueued ==
    CircularQueue_any(deduplication_queues[QueueOf(last_result.msg.ptype)],
                      XxHash64(last_result.msg.payload))

\* C36: a packet refused because its connection has not completed the
\* handshake leaves no digest in the deduplication queues, so a packet is
\* dropped as a duplicate only when a packet of its class with its digest
\* has been handled before.
C36_RefusedPacketNotRemembered ==
    /\ ( /\ last_result.outcome = "refused"
         /\ last_result.msg.kind = "Packet"
         /\ QueueOf(last_result.msg.ptype) # "none" ) => ~LastDigestQueued
    /\ last_result.outcome = "duplicate" =>
          \E i \in 1 .. Len(handled) :
              /\ handled[i].msg.kind = "Packet"
              /\ QueueOf(handled[i].msg.ptype) = QueueOf(last_result.msg.ptype)
              /\ XxHash64(handled[i].msg.payload)
                    = XxHash64(last_result.msg.payload)

\* the last message was a NetworkPacket delivered by a connection that had
\* not completed the handshake
PacketBeforeHandshake ==
    /\ last_result.outcome # "none"
    /\ last_result.msg.kind = "Packet"
    /\ ~last_result.post

\* C13: whenever a connection that has not completed the handshake delivers
\* a NetworkPacket to a node of type Node, the packet is dropped and the
\* expulsion of the connection is registered, whether or not the payload has
\* been seen before.
C13_PacketBeforeHandshakeClosesConnection ==
    (PacketBeforeHandshake /\ recv_cfg.self_peer_type = Node) =>
        /\ Expulsion(last_result.token) \in conn_changes
        /\ \A i \in 1 .. Len(handled) : handled[i].token # last_result.token

(***************************************************************************)
(* Admission: properties.                                                  *)
(***************************************************************************)
\* C3: no connection, accepted or dialed, is admitted while the remote's
\* node id, ip or socket address is hard-banned: accept and connect consult
\* the hard bans and reject a match.
C3_NoAdmissionWhileHardBanned ==
    last_admit.outcome = "admitted" => ~last_admit.hard_banned

\* a soft ban names the address: its ip, or the socket address itself
IsSoftBanned(bans, addr) ==
    BanId_Ip(addr.ip) \in DOMAIN bans \/ BanId_Socket(addr) \in DOMAIN bans

\* C24: no connection, accepted or dialed, is admitted while a soft ban for
\* the remote's ip or socket address is in the map; in particular not an
\* inbound connection from an address that a failed dial has banned.
C24_NoAdmissionWhileSoftBanned ==
    last_admit.outcome = "admitted" => ~IsSoftBanned(soft_bans, last_admit.addr)

(***************************************************************************)
(* Sending: properties.                                                    *)
(***************************************************************************)
\* the place of a request in the order of the socket writes, 0 if not written
WrittenAt(request) ==
    IF \E i \in 1 .. Len(written) : written[i] = request
    THEN CHOOSE i \in 1 .. Len(written) : written[i] = request
    ELSE 0

\* the normal-priority requests that were pending on the connection of the
\* k-th async_send when it was made
PendingNormal(k) ==
    {NetworkRawRequest(queued[k].request.token, d) : d \in queued[k].pending_lo}

\* C10: within one connection, a high-priority message queued while
\* normal-priority messages are pending is written to the socket before
\* all of those normal-priority messages.
C10_HighBeforePendingNormal ==
    \A k \in 1 .. Len(queued) :
        queued[k].priority = High =>
            \A n \in PendingNormal(k) :
                WrittenAt(n) # 0 =>
                    /\ WrittenAt(queued[k].request) # 0
                    /\ WrittenAt(queued[k].request) < WrittenAt(n)

\* a high-priority message was queued behind pending normal-priority
\* messages of its connection, and all of them have been written
C10_HighOvertookPendingNormal ==
    \E k \in 1 .. Len(queued) :
        /\ queued[k].priority = High
        /\ PendingNormal(k) # {}
        /\ \A n \in PendingNormal(k) : WrittenAt(n) # 0

\* C31: every PeerList response is queued on its connection with high
\* priority, as pings, pongs and handshake responses are.
C31_PeerListQueuedHigh ==
    \A k \in 1 .. Len(queued) :
        queued[k].request.data \in {"PeerList", "Ping", "Pong", "HandshakeResponse"}
            => queued[k].priority = High

C32_TokenInOneMapAndFresh ==
    /\ []((DOMAIN conn_candidates) \cap (DOMAIN connections) = {})
    /\ [](\A t \in DOMAIN AllConns : AllConns[t].token = t /\ t < next_token)
    /\ [][ /\ next_token' >= next_token
           /\ \A t \in (DOMAIN conn_candidates') \cup (DOMAIN connections') :
                 t \notin DOMAIN AllConns => t >= next_token ]_vars

\* a connection was admitted after another was removed, and candidates and
\* established connections are both there
C32_AdmittedAfterRemoval ==
    /\ last_admit.outcome = "admitted"
    /\ DOMAIN conn_candidates # {}
    /\ DOMAIN connections # {}
    /\ \E t \in 1 .. next_token - 1 : t \notin DOMAIN AllConns

\* C33: whatever another thread reads of a connection, a connection that is
\* post-handshake has its remote peer id set, so the unwrap of the id of a
\* post-handshake connection does not fail.
C33_PostHandshakeHasId ==
    /\ \A t \in DOMAIN shared_conns :
          shared_conns[t].is_post_handshake => shared_conns[t].id # NoId
    /\ observed.is_post_handshake => observed.id # NoId

\* the BannedNode names the connection's peer, by id or by ip
IsBannedPeer(conn, banned) ==
    IF banned.tag = "ById" THEN conn.id = banned.id ELSE conn.addr.ip = banned.ip

\* C29: a BanNode request received from a peer is forwarded only to
\* post-handshake connections other than the one it arrived on and other
\* than those of the banned peer (by id or by ip); with no_trust_bans no
\* BanNode or UnbanNode request is forwarded at all.
C29_BanForwardedToOthersOnly ==
    /\ last_forward.msg.kind = "BanNode" =>
          \A conn \in last_forward.to :
              /\ conn.is_post_handshake
              /\ conn.token # last_forward.from
              /\ ~IsBannedPeer(conn, peer_to_ban(last_forward.msg))
    /\ recv_cfg.no_trust_bans =>
          /\ last_forward = NoForward
          /\ \A i \in 1 .. Len(forwarded) :
                 forwarded[i].msg.kind \notin {"BanNode", "UnbanNode"}

\* a ban by address that arrived on one connection went to another, and
\* not to the two established peers at the banned address
C29_BanByAddrForwarded ==
    /\ last_forward.msg = BanRequest("BanNode", [tag |-> "ByAddr", id |-> NoId, ip |-> 3])
    /\ last_forward.from = 1
    /\ {conn.token : conn \in last_forward.to} = {2}
    /\ {3, 4} \subseteq DOMAIN connections

\* C12: after connection_housekeeping has run at time t on a node of type
\* Node, every connection left in the established set has
\* last_seen + MAX_NORMAL_KEEP_ALIVE >= t.
C12_NoStaleConnectionAfterHousekeeping ==
    (housekept.ran /\ house_cfg.peer_type = Node) =>
        \A t \in DOMAIN connections :
            stats[t].last_seen + MAX_NORMAL_KEEP_ALIVE >= housekept.curr_stamp

\* a housekeeping on a Node dropped a silent connection and kept another
C12_StaleDroppedFreshKept ==
    /\ housekept.ran
    /\ house_cfg.peer_type = Node
    /\ housekept.inactive # {}
    /\ housekept.inactive \cap DOMAIN connections = {}
    /\ DOMAIN connections # {}

\* C28: after connection_housekeeping has run on a node of type Node, the
\* number of established peers of type Node is at most max_allowed_nodes.
C28_NodePeersWithinLimit ==
    (housekept.ran /\ house_cfg.peer_type = Node) =>
        Cardinality(get_peer_stats(connections, Node))
            <= admit_cfg.max_allowed_nodes

\* the soft bans a failed dial can set
SoftBanIds == {BanId_Socket(input[2]) : input \in ConnectInputs}

\* C25: a soft ban leaves the map only at or after its expiry; after a
\* housekeeping run at time t no ban with an expiry at or before t is left;
\* and with housekeeping running on, every soft ban is lifted in the end.
C25_SoftBanLiftedAtExpiry ==
    /\ [][\A b \in DOMAIN soft_bans :
            b \notin DOMAIN soft_bans' => soft_bans[b] <= clock]_vars
    /\ [](housekept.ran =>
            \A b \in DOMAIN soft_bans : soft_bans[b] > housekept.curr_stamp)
    /\ \A b \in SoftBanIds :
            (b \in DOMAIN soft_bans) ~> (b \notin DOMAIN soft_bans)

\* the failed dial to 1:8000 set a soft ban, and a housekeeping run at or
\* after its expiry has lifted it
C25_BanSetAndLifted ==
    /\ last_admit = Admission("connect", "unreachable", SocketAddr(1, 8000),
                              NoId, FALSE)
    /\ housekept.ran
    /\ housekept.curr_stamp >= UNREACHABLE_EXPIRATION_SECS
    /\ soft_bans = NoBans

(***************************************************************************)
(* Framing: properties.                                                    *)
(***************************************************************************)
\* the stream is the concatenation of the peer's frames and nothing else
WellFormedStream == stream = serialize_frames(frames_in)

IsPrefixOf(a, b) == Len(a) <= Len(b) /\ a = SubSeq(b, 1, Len(a))

\* C16: when a length prefix above 2^28 is read, the connection is
\* terminated and no later bytes are interpreted as frames: nothing is
\* handed to process_complete_packet afterwards.
C16_OversizedFrameTerminates ==
    framer.rejected_at >= 0 =>
        (closing /\ Len(framer.delivered) = framer.rejected_at)

\* C17: however the stream of length-prefixed frames is split into reads,
\* the frames handed to process_complete_packet are the original frames in
\* order: a prefix of them at any time, all of them once the stream is read.
C17_FramesSurviveAnyChunking ==
    WellFormedStream =>
        /\ IsPrefixOf(framer.delivered, frames_in)
        /\ (pos = Len(stream) => framer.delivered = frames_in)

(***************************************************************************)
(* Handshakes: properties.                                                 *)
(***************************************************************************)
\* the last Handshake request named the node's own id or the id of a peer
\* that was connected already
HandshakeWithTakenId ==
    /\ last_handshake.ran
    /\ \/ last_handshake.sender.id = OwnId
       \/ last_handshake.sender.id \in last_handshake.connected

\* C18: a Handshake that carries the local node's id, or the id of a peer
\* that is connected already, terminates the connection and leaves the
\* Buckets unchanged.
C18_HandshakeWithTakenIdRejected ==
    HandshakeWithTakenId =>
        /\ last_handshake.token \in closing_tokens
        /\ buckets = bk_pre

(***************************************************************************)
(* Consensus bridge: properties.                                           *)
(***************************************************************************)
\* a Stop is on one of the four queues
StopQueued ==
    \E q \in QueueNames :
       \E i \in 1 .. Len(callback_queue[q]) : callback_queue[q][i].tag = "Stop"

\* C19: once a Stop is on any of the four queues, the loop of the bridge
\* eventually reads it and terminates, also while other messages keep
\* arriving.
C19_StopTerminatesBridge == StopQueued ~> (bridge_pc = "done")

\* the batch sizes of the two directions
BatchIn == queue_take_amount(loop_interval_in)
BatchOut == queue_take_amount(loop_interval_out)

C20_CloseEndsLoopAndJoin ==
    /\ [](passed_after = 0)
    /\ close_called ~> (loop_pc = "exited")
    /\ (close_called /\ joiner = "joining") ~> (joiner = "Ok")

\* close() was called while the loop ran, the loop has ended and the join
\* that waited for it has returned Ok
C20_ClosedAndJoined ==
    close_called /\ loop_pc = "exited" /\ joiner = "Ok"

\* C21: a join() made on the event thread returns an error and does not
\* wait for the thread itself; a join() that finds the handle consumed
\* returns an error; at most one caller waits, and a caller that waits
\* returns once the node has been closed.
C21_JoinFromAnyThread ==
    /\ [](last_join.by = "event" =>
            /\ last_join.outcome = "inside event thread"
            /\ event_join = "Err")
    /\ [](loop_pc # "stuck")
    /\ []((last_join.by \in {"first", "second"} /\ ~last_join.handle) =>
            last_join.outcome \in {"already joined", "missing id"})
    /\ [](~(joiner = "joining" /\ joiner2 = "joining"))
    /\ (close_called /\ joiner2 = "joining") ~> (joiner2 = "Ok")

\* the first thread joined the node, the second was told that the handle is
\* consumed, and the event thread's own join returned an error
C21_JoinedOnceOthersRefused ==
    /\ joiner = "Ok"
    /\ event_join = "Err"
    /\ last_join = Join("second", FALSE, "already joined")
    /\ joiner2 = "Err"

(***************************************************************************)
(* TlsServer: properties.                                                  *)
(***************************************************************************)
\* the connections that have completed a handshake
PostHandshakeTokens == {t \in DOMAIN tls_conns : tls_conns[t].peer # NoPeer}

\* C22: the count of post-handshake peers equals the number of live
\* connections that have completed the handshake.
C22_PeerCounterMatchesConnections ==
    peers_gauge = Cardinality(PostHandshakeTokens)

\* C23: once a connection with a peer has been destroyed, the buckets hold
\* no entry for that peer.
C23_DestroyedPeerLeavesBuckets ==
    \A peer \in tls_last.removed : ~InBuckets(buckets, peer)

\* C30: the failed-packet count of a connection is the number of messages
\* received on it that did not parse, and after a cleanup_connections no
\* connection with MAX_FAILED_PACKETS_ALLOWED or more failed packets is
\* left, in every mode of the node.
C30_FailedPacketsCountedAndClosed ==
    /\ \A t \in DOMAIN tls_conns :
           tls_conns[t].failed_pkts = invalid_count[t]
    /\ tls_last.fn = "cleanup_connections" =>
           \A t \in DOMAIN tls_conns :
               tls_conns[t].failed_pkts < MAX_FAILED_PACKETS_ALLOWED

(***************************************************************************)
(* Validation of inbound packets: properties.                              *)
(***************************************************************************)
\* C26: a node in a bootstrapper mode hands no inbound NetworkPacket to
\* process_complete_packet, from where it would reach the packet queue of
\* consensus and RPC and the list of seen messages.
C26_BootstrapperTakesNoPacket ==
    is_bootstrapper_mode(boot_mode) =>
        \A i \in 1 .. Len(boot_conn.delivered) :
            ~IsNetworkPacket(boot_conn.delivered[i])

(***************************************************************************)
(* Routing: properties.                                                    *)
(***************************************************************************)
\* the peer ids the last routed packet was sent to
SentIds == {connections[t].id : t \in sent}

\* the last call routed a broadcast packet
BroadcastRouted == last_call.fn # "none" /\ last_call.pkt.destination.tag = "Broadcast"

\* the peers a broadcast of the last packet may go to: post-handshake,
\* not a bootstrapper, on the packet's network, not excluded, not the sender
EligiblePeers ==
    {t \in DOMAIN connections :
        /\ connections[t].is_post_handshake
        /\ connections[t].peer_type # Bootstrapper
        /\ last_call.pkt.network_id \in connections[t].remote_end_networks
        /\ connections[t].id \notin last_call.pkt.destination.dont_relay_to
        /\ connections[t].id # last_call.pkt.peer}

\* C4: whatever relay_broadcast_percentage is, a broadcast packet is sent
\* neither to the peer it came from nor to a peer of its dont_relay_to list.
C4_BroadcastSkipsOriginAndExcluded ==
    BroadcastRouted =>
        /\ last_call.pkt.peer \notin SentIds
        /\ SentIds \cap last_call.pkt.destination.dont_relay_to = {}

\* C5: a packet with network id n, broadcast or direct, is sent only over
\* connections whose remote_end_networks contains n.
C5_SentOnlyOnPacketNetwork ==
    last_call.fn # "none" =>
        \A t \in sent :
            last_call.pkt.network_id \in connections[t].remote_end_networks

\* C6: a broadcast under relay_broadcast_percentage r < 1.0 with E eligible
\* peers is sent to exactly floor(r * E) peers (5 eligible, r = 0.4: 2).
C6_FanOutIsFloorOfShare ==
    (BroadcastRouted /\ relay_pct < 100) =>
        Cardinality(sent) = (Cardinality(EligiblePeers) * relay_pct) \div 100

\* the last call routed a direct message
DirectRouted == last_call.fn # "none" /\ last_call.pkt.destination.tag = "Direct"

\* the post-handshake connections whose remote peer id is the destination
DirectTargets ==
    {t \in DOMAIN connections :
        /\ connections[t].is_post_handshake
        /\ connections[t].id = last_call.pkt.destination.receiver}

\* the packet waits in a send or resend queue for a later attempt
KeptForLater(pkt) ==
    \/ \E i \in 1 .. Len(send_queue) : send_queue[i] = pkt
    \/ \E i \in 1 .. Len(resend_queue) : resend_queue[i].message = pkt

\* C14: a direct message whose destination id matches no post-handshake
\* connection is dropped: it is sent on no connection and is kept in no send
\* or resend queue.
C14_UnmatchedDirectDropped ==
    (DirectRouted /\ DirectTargets = {}) =>
        (sent = {} /\ ~KeptForLater(last_call.pkt))

\* C15: a direct message is sent on exactly the post-handshake connections
\* whose remote peer id equals its destination; in particular it is sent
\* whenever there is such a connection.
C15_DirectSentToMatchingConnections ==
    DirectRouted => sent = DirectTargets

(***************************************************************************)
(* Buckets: properties.                                                    *)
(***************************************************************************)
NonEmptyIdx(b) == {i \in BucketIdx : Len(b[i]) > 0}

\* the positions <<bucket, index>> that hold an entry
Slots(b) == UNION {{<<i, m>> : m \in 1 .. Len(b[i])} : i \in NonEmptyIdx(b)}

PeerAt(b, s) == b[s[1]][s[2]].peer

NoTwoShareId(b) ==
    \A s, t \in Slots(b) : PeerAt(b, s).id = PeerAt(b, t).id => s = t

NoTwoShareAddr(b) ==
    \A s, t \in Slots(b) : PeerAt(b, s).addr = PeerAt(b, t).addr => s = t

IdPresent(b, id) == \E s \in Slots(b) : PeerAt(b, s).id = id

CountAddr(b, addr) == Cardinality({s \in Slots(b) : PeerAt(b, s).addr = addr})

\* the bucket insert_into_bucket pushes a node with this id into
TargetBucket(id) ==
    CHOOSE i \in BucketIdx : InBucketRange(distance(OwnId, id), i)

\* C7: after any sequence of Buckets operations no two entries of the buckets
\* share a node id, and inserting a peer whose id is already present leaves
\* the total number of entries unchanged.
C7_BucketUniqueness ==
    /\ NoTwoShareId(buckets)
    /\ (bk_op.kind = "insert" /\ IdPresent(bk_pre, bk_op.peer.id))
          => Buckets_len(buckets) = Buckets_len(bk_pre)

\* C8: when the buckets hold one entry per id and per ip:port, inserting a
\* peer with the ip:port of an existing entry and an id that is not present
\* leaves exactly one entry for that ip:port and the total number of entries
\* unchanged, whichever buckets the two ids map to.
C8_DuplicateIpPortReplaced ==
    ( /\ bk_op.kind = "insert"
      /\ NoTwoShareId(bk_pre)
      /\ NoTwoShareAddr(bk_pre)
      /\ ~IdPresent(bk_pre, bk_op.peer.id)
      /\ CountAddr(bk_pre, bk_op.peer.addr) = 1 )
    => ( /\ CountAddr(buckets, bk_op.peer.addr) = 1
         /\ Buckets_len(buckets) = Buckets_len(bk_pre) )

\* C9: after any sequence of Buckets operations every bucket holds at most
\* BUCKET_SIZE entries, and inserting a peer equal to no entry into a full
\* bucket leaves that bucket with BUCKET_SIZE entries, the newcomer last.
C9_BucketSizeBounded ==
    /\ \A i \in NonEmptyIdx(buckets) : Len(buckets[i]) <= BUCKET_SIZE
    /\ ( /\ bk_op.kind = "insert"
         /\ \A s \in Slots(bk_pre) : ~PeerEq(PeerAt(bk_pre, s), bk_op.peer)
         /\ Len(bk_pre[TargetBucket(bk_op.peer.id)]) = BUCKET_SIZE )
       => LET x == buckets[TargetBucket(bk_op.peer.id)]
          IN  Len(x) = BUCKET_SIZE /\ x[Len(x)].peer = bk_op.peer


====
